---- MODULE Spec2Model ----
(***************************************************************************)
(* A model of the violifer RPC framework: the multiplexing Client          *)
(* (client.go), the gob codec's Write (GobCodec) and the per-connection    *)
(* Server engine (ServeConn, serveCodec, handleRequest).                   *)
(*                                                                         *)
(* Several state machines live in this module.  SpecClient runs one       *)
(* Client with MaxCalls concurrent callers against a peer that answers     *)
(* every request frame once, in any order; SpecClientLocks runs the same   *)
(* Client with each Lock and Unlock of its two mutexes a step of its own.  *)
(* SpecServer runs one server connection that is fed a handshake and up    *)
(* to MaxReq request frames.  SpecDiscovery runs one Discovery (xclient)   *)
(* against a clock and a registry that answers or fails; SpecRefreshers    *)
(* runs a RegistryDiscovery with several callers at once.  SpecRegistry    *)
(* runs one Registry with its heartbeat senders against a clock.           *)
(* SpecXClient runs one XClient and its Broadcasts.  SpecService runs      *)
(* service.call on one method descriptor.  FairSpecClient and             *)
(* FairSpecServer add the scheduling that the liveness properties need.    *)
(* Each specification leaves the other machines' variables unchanged.      *)
(***************************************************************************)
EXTENDS Integers, Sequences, FiniteSets, TLC

\* ------------------------------------------------------------------ bounds
MaxCalls == 2
MaxClose == 2

Calls == 1..MaxCalls

\* nil *Call
NoCall == 0

VARIABLES
    \* ---- Client (client.go:47-66)
    seq,            \* client.seq, next sequence number
    pending,        \* client.pending, function seq -> call
    closing,        \* client.closing
    shutdown,       \* client.shutdown
    sendingMutex,   \* client.sendingMutex: 0 free, c held by caller c
    header,         \* client.header.Seq, the shared request header
    \* ---- Call objects, one per caller (client.go:25-38)
    callPc,         \* where caller c is in Go/send/Call
    callSeq,        \* call.Seq (0 until registered)
    callError,      \* call.Error ("nil" when unset)
    callReply,      \* what was decoded into call.Reply (0: untouched)
    doneCount,      \* number of times call.done() sent the call on call.Done
    callRet,        \* what Client.Call returned to caller c ("none": not yet)
    \* ---- connection and codec of the client
    connUp,         \* the net.Conn is usable (not closed, not broken)
    bufErr,         \* the codec's bufio.Writer holds a sticky write error
    wire,           \* request frames that reached the stream, in order
    inbox,          \* response frames on their way to the receiver
    responded,      \* seqs the peer has answered
    \* ---- receiver goroutine (client.go:172-206)
    recvPc,         \* "header", "body", "terminate", "exited"
    recvH,          \* header read by the receiver
    recvCall,       \* call returned by removeCall(h.Seq)
    \* ---- observations
    closeLog,       \* one record per Close invocation
    filledBy,       \* seq of the response frame that filled call c (0: none)
    endedBy,        \* how call c left the pending table
    discarded,      \* seqs whose response the receiver consumed and dropped
    pendingAtClose, \* calls in the pending table when Close took effect
    \* ---- Server connection (ServeConn / serveCodec / handleRequest)
    srvPc,          \* ServeConn/serveCodec position
    opt,            \* the Option ServeConn decoded
    nread,          \* requests read so far; the newest is request nread
    unreadBody,     \* the body of a refused request is still in the stream
    reqKind,        \* what request r turned out to be (one of ReqKinds)
    reqSeq,         \* req.h.Seq of request r
    reqErr,         \* req.h.Error of request r
    hPc,            \* handleRequest(r) position
    gPc,            \* position of the goroutine handleRequest(r) spawned
    wg,             \* the WaitGroup counter of serveCodec
    srvSendingMutex,\* sendingMutex of serveCodec: Free or the writer holding it
    out,            \* what was written to the stream, header and body parts
    headerReads,    \* number of cc.ReadHeader calls made
    sendCalls,      \* number of sendResponse calls made for request r
    \* ---- Discovery (MultiServersDiscovery / RegistryDiscovery)
    dKind,          \* "static": MultiServersDiscovery, "registry": RegistryDiscovery
    dServers,       \* d.servers
    dIndex,         \* d.index, the round-robin cursor
    lastUpdate,     \* d.lastUpdate
    dTimeout,       \* d.timeout
    dNow,           \* time.Now() as the discovery sees it
    dOps,           \* number of Discovery calls made
    dOp,            \* the last Discovery call: what it did and returned
    rrLog,          \* endpoints the RoundRobinSelect Gets returned since the
                    \* list was last set
    rrStart,        \* d.index at the first of those Gets
    \* ---- Registry (registry.go) and one Heartbeat sender
    rPc,            \* "none" until New, then "serving"
    rTimeout,       \* r.timeout
    rServers,       \* r.servers: address -> start
    rNow,           \* time.Now() as the registry sees it
    hb,             \* the Heartbeat sender: state, address, period, next tick,
                    \* and the history of its sends
    rGets,          \* number of GETs served
    lastGet,        \* the last GET: when it was served, the list it returned
    \* ---- Client, lock by lock
    mutex,          \* client.mutex: Unlocked or the goroutine holding it
    lockOrder,      \* per goroutine, the mutexes it holds, oldest first
    closePc,        \* position of the goroutine calling Close
    availPc,        \* position of the goroutine calling IsAvailable
    unavailableSeen,\* an IsAvailable call before the latest returned false
    \* ---- RegistryDiscovery with several callers
    dMutex,         \* d.mutex: Unlocked or the caller holding it
    rfPc,           \* where caller k is in Get/GetAll -> Refresh
    rfCall,         \* what caller k called, saw, fetched and returned
    \* ---- XClient and one Broadcast at a time
    xClients,       \* xc.clients: endpoint -> id of the cached Client
    xMutex,         \* xc.mutex: Unlocked or the goroutine holding it
    xMade,          \* the Clients XDial has made, by id: endpoint and flags
    bPc,            \* Broadcast: "idle" or "wait" (in wg.Wait)
    bCount,         \* number of Broadcast calls made
    bServers,       \* the list GetAll gave this Broadcast
    brPc,           \* position of branch i
    brClient,       \* the Client dial returned to branch i
    brErr,          \* err of branch i: what xc.call returned
    bE,             \* e, the error Broadcast will return
    bReplyNil,      \* Broadcast was called with reply == nil
    bReplyDone,     \* replyDone
    bReply,         \* the caller's reply slot (0: untouched)
    bReplyWrites,   \* number of times this Broadcast set the reply slot
    bCancelled,     \* the derived ctx is cancelled
    bWg,            \* the WaitGroup counter
    bOrder,         \* the branches in the order they took Broadcast's mutex
    bRet,           \* what the last Broadcast returned
    \* ---- service.call on one method descriptor
    numCalls,       \* the descriptor's call counter (NumCalls reads it)
    svcPc,          \* handler goroutine k: "idle" or inside "call"
    svcIn,          \* what k's invocation has done: counted, run the handler
    svcStarted,     \* invocations of call entered
    svcReturned,    \* invocations of call returned
    handlerRuns,    \* times the handler method was invoked
    svcErr          \* what the handler returned to k last

clientVars == <<seq, pending, closing, shutdown, sendingMutex, header,
                callPc, callSeq, callError, callReply, doneCount, callRet,
                connUp, bufErr, wire, inbox, responded,
                recvPc, recvH, recvCall,
                closeLog, filledBy, endedBy, discarded, pendingAtClose>>

serverVars == <<srvPc, opt, nread, unreadBody, reqKind, reqSeq, reqErr, hPc, gPc, wg,
                srvSendingMutex, out, headerReads, sendCalls>>

discoveryVars == <<dKind, dServers, dIndex, lastUpdate, dTimeout, dNow,
                   dOps, dOp, rrLog, rrStart>>

registryVars == <<rPc, rTimeout, rServers, rNow, hb, rGets, lastGet>>

\* All of the Client but its two mutexes.
clientData == <<seq, pending, closing, shutdown, header,
                callPc, callSeq, callError, callReply, doneCount, callRet,
                connUp, bufErr, wire, inbox, responded,
                recvPc, recvH, recvCall,
                closeLog, filledBy, endedBy, discarded, pendingAtClose>>

lockVars == <<mutex, lockOrder, closePc, availPc, unavailableSeen>>

refreshVars == <<dMutex, rfPc, rfCall>>

xclientVars == <<xClients, xMutex, xMade, bPc, bCount, bServers, brPc,
                 brClient, brErr, bE, bReplyNil, bReplyDone, bReply,
                 bReplyWrites, bCancelled, bWg, bOrder, bRet>>

serviceVars == <<numCalls, svcPc, svcIn, svcStarted, svcReturned,
                 handlerRuns, svcErr>>

vars == <<clientVars, serverVars, discoveryVars, registryVars, lockVars,
          refreshVars, xclientVars, serviceVars>>

\* What a step of one machine leaves alone: the other machines.
ClientFrame ==
    UNCHANGED <<xclientVars, serviceVars, serverVars, discoveryVars, registryVars, lockVars, refreshVars>>
ServerFrame ==
    UNCHANGED <<xclientVars, serviceVars, clientVars, discoveryVars, registryVars, lockVars, refreshVars>>
DiscoveryFrame ==
    UNCHANGED <<xclientVars, serviceVars, clientVars, serverVars, registryVars, lockVars, refreshVars>>
RegistryFrame ==
    UNCHANGED <<xclientVars, serviceVars, clientVars, serverVars, discoveryVars, lockVars, refreshVars>>
LockFrame ==
    UNCHANGED <<serviceVars, serverVars, discoveryVars, registryVars, refreshVars, xclientVars>>
RefreshFrame ==
    UNCHANGED <<serviceVars, clientVars, serverVars, registryVars, lockVars, xclientVars>>
XClientFrame ==
    UNCHANGED <<clientVars, serverVars, discoveryVars, registryVars, lockVars,
                refreshVars, serviceVars>>
ServiceFrame ==
    UNCHANGED <<clientVars, serverVars, discoveryVars, registryVars, lockVars,
                refreshVars, xclientVars>>

\* ------------------------------------------------------------ client: data

\* The reply the server computes for the request with sequence number s.
Result(s) == 100 + s

\* newClientCodec: seq starts at 1, 0 means an invalid call.
InitSeq == 1

\* receive: `var h codec.Header`, fresh in every turn of the loop.
ZeroHeader == [Seq |-> 0, Error |-> ""]

\* Range of the pending table.
PendingCalls(p) == {p[s] : s \in DOMAIN p}

\* A registerCall that tests closing alone.
registerCallRefusedClosingOnly == closing

\* registerCall's refusal test.
registerCallRefused == closing \/ shutdown

\* A registerCall that increments client.seq before it stores the call.
registerCallPendingAfterIncrement(p, s, c) ==
    [x \in DOMAIN p \cup {s + 1} |-> IF x = s + 1 THEN c ELSE p[x]]

\* registerCall: client.pending[call.Seq] = call
registerCallPending(p, s, c) == [x \in DOMAIN p \cup {s} |-> IF x = s THEN c ELSE p[x]]

\* A registerCall that leaves client.seq as it is.
registerCallNextSeqSame(s) == s

\* registerCall: client.seq++
registerCallNextSeq(s) == s + 1

\* removeCall: the call returned, nil when the table has no such seq.
removeCall(p, s) == IF s \in DOMAIN p THEN p[s] ELSE NoCall

\* A removeCall that does not delete.
removeCallPendingKeep(p, s) == p

\* removeCall: delete(client.pending, seq)
removeCallPending(p, s) == [x \in DOMAIN p \ {s} |-> p[x]]

\* A receive loop that stops after any body.
receiveNextStop(ok) == "terminate"

\* receive, case call == nil: err = cc.ReadBody(nil); the loop goes on
\* while err is nil.
receiveNext(ok) == IF ok THEN "header" ELSE "terminate"

\* IsAvailable
IsAvailable == ~shutdown /\ ~closing

\* A Close that does not look at closing.
CloseNeverClosing == FALSE

\* Close's test for a client that is already closing.
CloseAlreadyClosing == closing

\* A terminateCalls that completes no call.
terminateCallsDoneNone(d, p) == d

\* terminateCalls: call.done() for every call in client.pending.
terminateCallsDone(d, p) ==
    [c \in Calls |-> IF c \in PendingCalls(p) THEN d[c] + 1 ELSE d[c]]

\* A codec Close that leaves the stream open.
GobCodecCloseNoop(up) == up

\* GobCodec.Close: c.conn.Close(); the stream is no longer usable.
GobCodecClose(up) == FALSE

\* GobCodec.Write(h, body) on a stream that is up or not, with a bufio.Writer
\* that holds a sticky error or not, for a body gob can encode or not.
\*   err    Write returns a non-nil error
\*   out    what reached the stream: "frame", "header" (header alone), "none"
\*   up     stream usable afterwards (Write closes it when it returns an error)
\*   berr   the bufio.Writer's sticky error afterwards (a failed Flush sets it)
GobCodecWrite(up, berr, encodable) ==
    IF berr
    THEN [err |-> TRUE, out |-> "none", up |-> FALSE, berr |-> TRUE]
    ELSE IF ~encodable
    THEN [err |-> TRUE, out |-> IF up THEN "header" ELSE "none",
          up |-> FALSE, berr |-> ~up]
    ELSE [err |-> FALSE, out |-> IF up THEN "frame" ELSE "none",
          up |-> up, berr |-> ~up]

\* The stream after a Write.
WireAfter(w, o, s) ==
    CASE o = "frame"  -> Append(w, [Seq |-> s, full |-> TRUE])
      [] o = "header" -> Append(w, [Seq |-> s, full |-> FALSE])
      [] OTHER          -> w

\* ------------------------------------------------------------ client: Init

InitClient ==
    /\ seq = InitSeq
    /\ pending = <<>>
    /\ closing = FALSE
    /\ shutdown = FALSE
    /\ sendingMutex = 0
    /\ header = 0
    /\ callPc = [c \in Calls |-> "idle"]
    /\ callSeq = [c \in Calls |-> 0]
    /\ callError = [c \in Calls |-> "nil"]
    /\ callReply = [c \in Calls |-> 0]
    /\ doneCount = [c \in Calls |-> 0]
    /\ callRet = [c \in Calls |-> "none"]
    /\ connUp = TRUE
    /\ bufErr = FALSE
    /\ wire = <<>>
    /\ inbox = <<>>
    /\ responded = {}
    /\ recvPc = "header"
    /\ recvH = ZeroHeader
    /\ recvCall = NoCall
    /\ closeLog = <<>>
    /\ filledBy = [c \in Calls |-> 0]
    /\ endedBy = [c \in Calls |-> "none"]
    /\ discarded = {}
    /\ pendingAtClose = {}

\* --------------------------------------------------------- client: actions

\* Go -> send, first half: take the sending lock and register the call.
\* A refused registration completes the call with ErrShutdown and returns.
send(c) ==
    /\ ClientFrame
    /\ UNCHANGED callRet
    /\ callPc[c] = "idle"
    /\ sendingMutex = 0
    /\ IF registerCallRefused
       THEN /\ callError' = [callError EXCEPT ![c] = "ErrShutdown"]
            /\ doneCount' = [doneCount EXCEPT ![c] = @ + 1]
            /\ callPc' = [callPc EXCEPT ![c] = "wait"]
            /\ UNCHANGED <<seq, pending, sendingMutex, header, callSeq>>
       ELSE /\ callSeq' = [callSeq EXCEPT ![c] = seq]
            /\ pending' = registerCallPending(pending, seq, c)
            /\ seq' = registerCallNextSeq(seq)
            /\ header' = seq
            /\ sendingMutex' = c
            /\ callPc' = [callPc EXCEPT ![c] = "write"]
            /\ UNCHANGED <<callError, doneCount>>
    /\ UNCHANGED <<closing, shutdown, callReply, connUp, bufErr, wire, inbox,
                   responded, recvPc, recvH, recvCall, closeLog, filledBy,
                   endedBy, discarded, pendingAtClose>>

\* send, second half: cc.Write(&client.header, call.Args); on an error the
\* call is removed and completed with it; the sending lock is released.
sendWrite(c) ==
    /\ ClientFrame
    /\ UNCHANGED callRet
    /\ callPc[c] = "write"
    /\ \E encodable \in BOOLEAN :
         LET w == GobCodecWrite(connUp, bufErr, encodable)
             call == removeCall(pending, callSeq[c])
         IN  /\ wire' = WireAfter(wire, w.out, header)
             /\ connUp' = w.up
             /\ bufErr' = w.berr
             /\ IF w.err
                THEN /\ pending' = removeCallPending(pending, callSeq[c])
                     /\ IF call # NoCall
                        THEN /\ callError' = [callError EXCEPT ![call] = "write"]
                             /\ doneCount' = [doneCount EXCEPT ![call] = @ + 1]
                             /\ endedBy' = [endedBy EXCEPT ![call] = "sendfail"]
                        ELSE UNCHANGED <<callError, doneCount, endedBy>>
                ELSE UNCHANGED <<pending, callError, doneCount, endedBy>>
    /\ sendingMutex' = 0
    /\ callPc' = [callPc EXCEPT ![c] = "wait"]
    /\ UNCHANGED <<seq, closing, shutdown, header, callSeq, callReply, inbox,
                   responded, recvPc, recvH, recvCall, closeLog, filledBy,
                   discarded, pendingAtClose>>

\* Call: case call := <-call.Done
CallDone(c) ==
    /\ ClientFrame
    /\ callPc[c] = "wait"
    /\ doneCount[c] > 0
    /\ callPc' = [callPc EXCEPT ![c] = "ret_done"]
    /\ callRet' = [callRet EXCEPT ![c] = callError[c]]
    /\ UNCHANGED <<seq, pending, closing, shutdown, sendingMutex, header,
                   callSeq, callError, callReply, doneCount, connUp, bufErr,
                   wire, inbox, responded, recvPc, recvH, recvCall, closeLog,
                   filledBy, endedBy, discarded, pendingAtClose>>

\* Call: case <-ctx.Done(): removeCall(call.Seq) and return the ctx error.
CallCtxDone(c) ==
    /\ ClientFrame
    /\ callPc[c] = "wait"
    /\ pending' = removeCallPending(pending, callSeq[c])
    /\ endedBy' = IF removeCall(pending, callSeq[c]) # NoCall /\ endedBy[c] = "none"
                  THEN [endedBy EXCEPT ![c] = "cancel"]
                  ELSE endedBy
    /\ callPc' = [callPc EXCEPT ![c] = "ret_cancel"]
    /\ callRet' = [callRet EXCEPT ![c] = "rpc client - call failed: ctx"]
    /\ UNCHANGED <<seq, closing, shutdown, sendingMutex, header, callSeq,
                   callError, callReply, doneCount, connUp, bufErr, wire, inbox,
                   responded, recvPc, recvH, recvCall, closeLog, filledBy,
                   discarded, pendingAtClose>>

\* Close
Close ==
    /\ ClientFrame
    /\ UNCHANGED callRet
    /\ Len(closeLog) < MaxClose
    /\ IF CloseAlreadyClosing
       THEN /\ closeLog' = Append(closeLog, [ret |-> "ErrShutdown", ccClose |-> FALSE])
            /\ UNCHANGED <<closing, connUp, pendingAtClose>>
       ELSE /\ closing' = TRUE
            /\ connUp' = GobCodecClose(connUp)
            /\ closeLog' = Append(closeLog, [ret |-> "cc.Close", ccClose |-> TRUE])
            /\ pendingAtClose' = PendingCalls(pending)
    /\ UNCHANGED <<seq, pending, shutdown, sendingMutex, header, callPc,
                   callSeq, callError, callReply, doneCount, bufErr, wire,
                   inbox, responded, recvPc, recvH, recvCall, filledBy,
                   endedBy, discarded>>

\* receive: cc.ReadHeader(&h), then removeCall(h.Seq).  A frame the decoder
\* already buffered can still be read after the stream went down.
receiveHeader ==
    /\ ClientFrame
    /\ UNCHANGED callRet
    /\ recvPc = "header"
    /\ inbox # <<>>
    /\ LET h == Head(inbox)
           call == removeCall(pending, h.Seq)
       IN  /\ recvH' = [Seq |-> h.Seq, Error |-> h.Error]
           /\ recvCall' = call
           /\ pending' = removeCallPending(pending, h.Seq)
           /\ endedBy' = IF call # NoCall /\ endedBy[call] = "none"
                         THEN [endedBy EXCEPT ![call] = "response"]
                         ELSE endedBy
    /\ recvPc' = "body"
    /\ UNCHANGED <<seq, closing, shutdown, sendingMutex, header, callPc,
                   callSeq, callError, callReply, doneCount, connUp, bufErr,
                   wire, inbox, responded, closeLog, filledBy, discarded,
                   pendingAtClose>>

\* receive: ReadHeader fails on a stream that is down.
receiveHeaderErr ==
    /\ ClientFrame
    /\ UNCHANGED callRet
    /\ recvPc = "header"
    /\ ~connUp
    /\ recvPc' = "terminate"
    /\ UNCHANGED <<seq, pending, closing, shutdown, sendingMutex, header,
                   callPc, callSeq, callError, callReply, doneCount, connUp,
                   bufErr, wire, inbox, responded, recvH, recvCall, closeLog,
                   filledBy, endedBy, discarded, pendingAtClose>>

\* receive: the three cases of the switch, each reading the body.
receiveBody ==
    /\ ClientFrame
    /\ UNCHANGED callRet
    /\ recvPc = "body"
    /\ \E ok \in (IF connUp THEN {TRUE} ELSE BOOLEAN) :
         /\ recvPc' = receiveNext(ok)
         /\ inbox' = IF ok THEN Tail(inbox) ELSE inbox
         /\ CASE recvCall = NoCall ->
                   /\ discarded' = IF ok THEN discarded \cup {recvH.Seq} ELSE discarded
                   /\ UNCHANGED <<callError, callReply, doneCount, filledBy>>
              [] recvCall # NoCall /\ recvH.Error # "" ->
                   /\ callError' = [callError EXCEPT ![recvCall] = "remote"]
                   /\ doneCount' = [doneCount EXCEPT ![recvCall] = @ + 1]
                   /\ filledBy' = [filledBy EXCEPT ![recvCall] = recvH.Seq]
                   /\ UNCHANGED <<callReply, discarded>>
              [] OTHER ->
                   /\ callReply' = IF ok THEN [callReply EXCEPT ![recvCall] = Head(inbox).Body]
                                   ELSE callReply
                   /\ callError' = IF ok THEN callError
                                   ELSE [callError EXCEPT ![recvCall] = "reading body"]
                   /\ doneCount' = [doneCount EXCEPT ![recvCall] = @ + 1]
                   /\ filledBy' = [filledBy EXCEPT ![recvCall] = recvH.Seq]
                   /\ UNCHANGED discarded
    /\ recvCall' = NoCall
    /\ recvH' = ZeroHeader
    /\ UNCHANGED <<seq, pending, closing, shutdown, sendingMutex, header,
                   callPc, callSeq, connUp, bufErr, wire, responded,
                   closeLog, endedBy, pendingAtClose>>

\* terminateCalls(err), run by the receiver when its loop ends: under the
\* sending lock and the state lock, set shutdown and complete every pending
\* call with err (the table itself is left as it is).
terminateCalls ==
    /\ ClientFrame
    /\ UNCHANGED callRet
    /\ recvPc = "terminate"
    /\ sendingMutex = 0
    /\ shutdown' = TRUE
    /\ callError' = [c \in Calls |-> IF c \in PendingCalls(pending) THEN "terminated"
                                     ELSE callError[c]]
    /\ doneCount' = terminateCallsDone(doneCount, pending)
    /\ endedBy' = [c \in Calls |-> IF c \in PendingCalls(pending) /\ endedBy[c] = "none"
                                   THEN "terminate" ELSE endedBy[c]]
    /\ recvPc' = "exited"
    /\ UNCHANGED <<seq, pending, closing, sendingMutex, header, callPc,
                   callSeq, callReply, connUp, bufErr, wire, inbox, responded,
                   recvH, recvCall, closeLog, filledBy, discarded,
                   pendingAtClose>>

\* The peer: the server answers a complete request frame once (one
\* sendResponse per request), with an error header or with the reply.
PeerRespond ==
    /\ ClientFrame
    /\ UNCHANGED callRet
    /\ connUp
    /\ \E i \in 1..Len(wire) : \E e \in {"", "handler error"} :
         /\ wire[i].full
         /\ wire[i].Seq \notin responded
         /\ inbox' = Append(inbox, [Seq |-> wire[i].Seq, Error |-> e,
                                    Body |-> Result(wire[i].Seq)])
         /\ responded' = responded \cup {wire[i].Seq}
    /\ UNCHANGED <<seq, pending, closing, shutdown, sendingMutex, header,
                   callPc, callSeq, callError, callReply, doneCount, connUp,
                   bufErr, wire, recvPc, recvH, recvCall, closeLog, filledBy,
                   endedBy, discarded, pendingAtClose>>

\* The peer closes the stream (ServeConn's deferred conn.Close).
PeerClose ==
    /\ ClientFrame
    /\ UNCHANGED callRet
    /\ connUp
    /\ connUp' = FALSE
    /\ UNCHANGED <<seq, pending, closing, shutdown, sendingMutex, header,
                   callPc, callSeq, callError, callReply, doneCount, bufErr,
                   wire, inbox, responded, recvPc, recvH, recvCall, closeLog,
                   filledBy, endedBy, discarded, pendingAtClose>>

\* ============================================================== server

MaxReq == 2

Reqs == 1..MaxReq

\* const MagicNumber = 0x7a736b
MagicNumber == 8024939

\* codec.NewCodecFuncMap after init(): the tags that have a constructor.
NewCodecFuncMap == {"application/gob"}

\* The handshakes a peer can send: an Option that does or does not decode as
\* JSON, with a magic number, a codec tag and a HandleTimeout.
Options ==
    [decodes : BOOLEAN,
     MagicNumber : {MagicNumber, MagicNumber + 1},
     CodecType : {"application/gob", "application/json", "application/bogus"},
     HandleTimeout : {0, 1}]

\* A ServeConn that does not check the magic number.
OptionAcceptedNoMagic(o) ==
    /\ o.decodes
    /\ o.CodecType \in {"application/gob"}

\* ServeConn: the three checks an Option must pass before serveCodec runs.
OptionAccepted(o) ==
    /\ o.decodes
    /\ o.MagicNumber = MagicNumber
    /\ o.CodecType \in NewCodecFuncMap

\* NewClient(conn, opt): the constructor lookup by opt.CodecType, before
\* anything is written to the connection.
NewClient(codecType) ==
    IF codecType \in NewCodecFuncMap THEN "client" ELSE "invalid codec type"

\* What readRequest can meet after a header was read:
\*   "ok"         service and method found, body decoded
\*   "illformed"  findService: no dot in ServiceMethod
\*   "nosvc"      findService: service not in serviceMap
\*   "nomethod"   findService: service found, method not
\*   "badbody"    cc.ReadBody fails
ReqKinds == {"ok", "illformed", "nosvc", "nomethod", "badbody"}

\* findService on a name of that kind: "panic" is the type assertion
\* svci.(*service) on the nil entry of a service that is not registered.
findService(kind) ==
    CASE kind = "illformed" -> "rpc server - service/method request ill-formed"
      [] kind = "nosvc"     -> "panic"
      [] kind = "nomethod"  -> "rpc server - can't find method"
      [] OTHER              -> ""

\* A readRequest that does not look at what cc.ReadBody returned.
readRequestBodyUnchecked(kind) == findService(kind)

\* readRequest's error for a request of that kind ("" is nil).
readRequest(kind) ==
    IF findService(kind) # "" THEN findService(kind)
    ELSE IF kind = "badbody" THEN "read body error"
    ELSE ""

\* readRequest returns on findService's error before cc.ReadBody: the
\* request's body stays in the stream, and the next ReadHeader meets it.
bodyLeftUnread(kind) == kind \in {"illformed", "nomethod"}

\* The writers of one connection: the read loop, handleRequest(r) on its
\* timeout branch, and the goroutine handleRequest(r) spawned.
Free == <<"free", 0>>
LoopWriter(r) == <<"loop", r>>
TimeoutWriter(r) == <<"handleRequest", r>>
HandlerWriter(r) == <<"goroutine", r>>

\* A sendResponse that writes without taking the send mutex.
sendResponseNoLock == TRUE

\* sendResponse: sendingMutex.Lock() succeeds.
sendResponseMayLock == srvSendingMutex = Free

\* cc.Write(h, body): the header part, then the body part.
HeaderPart(r, w) == [part |-> "H", req |-> r, Seq |-> reqSeq[r], Error |-> reqErr[r], by |-> w[1]]
BodyPart(r, w) == [part |-> "B", req |-> r, Seq |-> reqSeq[r], Error |-> reqErr[r], by |-> w[1]]

\* A buffered channel called: the send never waits.
calledBuffered(r) == TRUE

\* handleRequest's goroutine passes `called <- struct{}{}` only while
\* handleRequest is receiving from the unbuffered channel called.
calledReceiverReady(r) == hPc[r] = "select"

\* ... and `sent <- struct{}{}` only while handleRequest is at `<-sent`.
sentReceiverReady(r) == hPc[r] = "wait_sent"

\* select's timer case can be taken only when a timeout is set.
timeoutArmed == opt.HandleTimeout # 0

InitServer ==
    /\ srvPc = "option"
    /\ opt = [decodes |-> FALSE, MagicNumber |-> 0, CodecType |-> "",
              HandleTimeout |-> 0]
    /\ nread = 0
    /\ unreadBody = FALSE
    /\ reqKind = [r \in Reqs |-> "none"]
    /\ reqSeq = [r \in Reqs |-> 0]
    /\ reqErr = [r \in Reqs |-> ""]
    /\ hPc = [r \in Reqs |-> "none"]
    /\ gPc = [r \in Reqs |-> "none"]
    /\ wg = 0
    /\ srvSendingMutex = Free
    /\ out = <<>>
    /\ headerReads = 0
    /\ sendCalls = [r \in Reqs |-> 0]

\* ServeConn: decode the Option, check it, and either run serveCodec or
\* return, which closes the stream (deferred conn.Close).
ServeConn ==
    /\ ServerFrame
    /\ UNCHANGED <<unreadBody, reqKind>>
    /\ srvPc = "option"
    /\ \E o \in Options :
         /\ opt' = o
         /\ srvPc' = IF OptionAccepted(o) THEN "loop" ELSE "closed"
    /\ UNCHANGED <<nread, reqSeq, reqErr, hPc, gPc, wg, srvSendingMutex, out,
                   headerReads, sendCalls>>

\* serveCodec: readRequest returns a request.  Without an error the
\* request is handed to a new handleRequest goroutine, which spawns the
\* handler goroutine; with one the loop answers it itself.
serveCodecRead ==
    /\ ServerFrame
    /\ srvPc = "loop"
    /\ nread < MaxReq
    /\ ~unreadBody
    /\ \E s \in Reqs : \E kind \in ReqKinds :
         LET r == nread + 1
             err == readRequest(kind)
         IN  /\ nread' = r
             /\ unreadBody' = bodyLeftUnread(kind)
             /\ reqKind' = [reqKind EXCEPT ![r] = kind]
             /\ headerReads' = headerReads + 1
             /\ reqSeq' = [reqSeq EXCEPT ![r] = s]
             /\ CASE err = "" ->
                       /\ wg' = wg + 1
                       /\ hPc' = [hPc EXCEPT ![r] = "select"]
                       /\ gPc' = [gPc EXCEPT ![r] = "call"]
                       /\ UNCHANGED <<srvPc, reqErr>>
                  [] err = "panic" ->
                       /\ srvPc' = "panic"
                       /\ UNCHANGED <<wg, hPc, gPc, reqErr>>
                  [] OTHER ->
                       /\ reqErr' = [reqErr EXCEPT ![r] = err]
                       /\ srvPc' = "send"
                       /\ UNCHANGED <<wg, hPc, gPc>>
    /\ UNCHANGED <<opt, srvSendingMutex, out, sendCalls>>

\* serveCodec: readRequest returns no request (the header could not be
\* read: end of stream, a broken stream, or a body where a header should
\* be): leave the loop.
serveCodecBreak ==
    /\ ServerFrame
    /\ UNCHANGED <<unreadBody, reqKind>>
    /\ srvPc = "loop"
    /\ headerReads' = headerReads + 1
    /\ srvPc' = "wait"
    /\ UNCHANGED <<opt, nread, reqSeq, reqErr, hPc, gPc, wg,
                   srvSendingMutex, out, sendCalls>>

\* serveCodec: sendResponse(cc, req.h, invalidRequest, sendingMutex) of the
\* read loop, first half: lock and write the header.
serveCodecSend ==
    /\ ServerFrame
    /\ UNCHANGED <<unreadBody, reqKind>>
    /\ srvPc = "send"
    /\ sendResponseMayLock
    /\ srvSendingMutex' = LoopWriter(nread)
    /\ out' = Append(out, HeaderPart(nread, LoopWriter(nread)))
    /\ sendCalls' = [sendCalls EXCEPT ![nread] = @ + 1]
    /\ srvPc' = "sendbody"
    /\ UNCHANGED <<opt, nread, reqSeq, reqErr, hPc, gPc, wg, headerReads>>

\* ... second half: write the body, unlock, continue the loop.
serveCodecSendBody ==
    /\ ServerFrame
    /\ UNCHANGED <<unreadBody, reqKind>>
    /\ srvPc = "sendbody"
    /\ out' = Append(out, BodyPart(nread, LoopWriter(nread)))
    /\ srvSendingMutex' = Free
    /\ srvPc' = "loop"
    /\ UNCHANGED <<opt, nread, reqSeq, reqErr, hPc, gPc, wg,
                   headerReads, sendCalls>>

\* serveCodec: wg.Wait() returns, cc.Close(); ServeConn closes the stream.
serveCodecClose ==
    /\ ServerFrame
    /\ UNCHANGED <<unreadBody, reqKind>>
    /\ srvPc = "wait"
    /\ wg = 0
    /\ srvPc' = "closed"
    /\ UNCHANGED <<opt, nread, reqSeq, reqErr, hPc, gPc, wg,
                   srvSendingMutex, out, headerReads, sendCalls>>

\* The spawned goroutine: req.svc.call returns, with an error or without.
\* The goroutine goes on to `called <- struct{}{}`.
handlerReturns(r) ==
    /\ ServerFrame
    /\ UNCHANGED <<unreadBody, reqKind>>
    /\ srvPc # "panic"
    /\ gPc[r] = "call"
    /\ \E failed \in BOOLEAN :
         gPc' = [gPc EXCEPT ![r] = IF failed THEN "called_err" ELSE "called_ok"]
    /\ UNCHANGED <<srvPc, opt, nread, reqSeq, reqErr, hPc, wg,
                   srvSendingMutex, out, headerReads, sendCalls>>

\* `called <- struct{}{}` meets handleRequest's `<-called`; the goroutine
\* sets req.h.Error when the handler failed and goes on to sendResponse.
handlerCalled(r) ==
    /\ ServerFrame
    /\ UNCHANGED <<unreadBody, reqKind>>
    /\ srvPc # "panic"
    /\ gPc[r] \in {"called_ok", "called_err"}
    /\ calledReceiverReady(r)
    /\ hPc' = [hPc EXCEPT ![r] = IF @ = "select" THEN "wait_sent" ELSE @]
    /\ reqErr' = [reqErr EXCEPT ![r] = IF gPc[r] = "called_err" THEN "handler error" ELSE @]
    /\ gPc' = [gPc EXCEPT ![r] = "send"]
    /\ UNCHANGED <<srvPc, opt, nread, reqSeq, wg, srvSendingMutex,
                   out, headerReads, sendCalls>>

\* The goroutine's sendResponse, first half: lock and write the header.
handlerSend(r) ==
    /\ ServerFrame
    /\ UNCHANGED <<unreadBody, reqKind>>
    /\ srvPc # "panic"
    /\ gPc[r] = "send"
    /\ sendResponseMayLock
    /\ srvSendingMutex' = HandlerWriter(r)
    /\ out' = Append(out, HeaderPart(r, HandlerWriter(r)))
    /\ sendCalls' = [sendCalls EXCEPT ![r] = @ + 1]
    /\ gPc' = [gPc EXCEPT ![r] = "sendbody"]
    /\ UNCHANGED <<srvPc, opt, nread, reqSeq, reqErr, hPc, wg, headerReads>>

\* ... second half: write the body, unlock; next is `sent <- struct{}{}`.
handlerSendBody(r) ==
    /\ ServerFrame
    /\ UNCHANGED <<unreadBody, reqKind>>
    /\ srvPc # "panic"
    /\ gPc[r] = "sendbody"
    /\ out' = Append(out, BodyPart(r, HandlerWriter(r)))
    /\ srvSendingMutex' = Free
    /\ gPc' = [gPc EXCEPT ![r] = "sent"]
    /\ UNCHANGED <<srvPc, opt, nread, reqSeq, reqErr, hPc, wg,
                   headerReads, sendCalls>>

\* `sent <- struct{}{}` meets handleRequest's `<-sent`: the goroutine ends,
\* handleRequest returns (deferred wg.Done).
handlerSent(r) ==
    /\ ServerFrame
    /\ UNCHANGED <<unreadBody, reqKind>>
    /\ srvPc # "panic"
    /\ gPc[r] = "sent"
    /\ sentReceiverReady(r)
    /\ gPc' = [gPc EXCEPT ![r] = "exit"]
    /\ hPc' = [hPc EXCEPT ![r] = "returned"]
    /\ wg' = wg - 1
    /\ UNCHANGED <<srvPc, opt, nread, reqSeq, reqErr,
                   srvSendingMutex, out, headerReads, sendCalls>>

\* handleRequest: case <-time.After(timeout): set the timeout error in
\* req.h.Error and go on to sendResponse.
handleRequestTimeout(r) ==
    /\ ServerFrame
    /\ UNCHANGED <<unreadBody, reqKind>>
    /\ srvPc # "panic"
    /\ hPc[r] = "select"
    /\ timeoutArmed
    /\ reqErr' = [reqErr EXCEPT ![r] = "rpc server - request handle timeout"]
    /\ hPc' = [hPc EXCEPT ![r] = "send"]
    /\ UNCHANGED <<srvPc, opt, nread, reqSeq, gPc, wg,
                   srvSendingMutex, out, headerReads, sendCalls>>

\* handleRequest's sendResponse on the timeout branch, first half.
handleRequestSend(r) ==
    /\ ServerFrame
    /\ UNCHANGED <<unreadBody, reqKind>>
    /\ srvPc # "panic"
    /\ hPc[r] = "send"
    /\ sendResponseMayLock
    /\ srvSendingMutex' = TimeoutWriter(r)
    /\ out' = Append(out, HeaderPart(r, TimeoutWriter(r)))
    /\ sendCalls' = [sendCalls EXCEPT ![r] = @ + 1]
    /\ hPc' = [hPc EXCEPT ![r] = "sendbody"]
    /\ UNCHANGED <<srvPc, opt, nread, reqSeq, reqErr, gPc, wg, headerReads>>

\* ... second half; handleRequest then returns (deferred wg.Done).
handleRequestSendBody(r) ==
    /\ ServerFrame
    /\ UNCHANGED <<unreadBody, reqKind>>
    /\ srvPc # "panic"
    /\ hPc[r] = "sendbody"
    /\ out' = Append(out, BodyPart(r, TimeoutWriter(r)))
    /\ srvSendingMutex' = Free
    /\ hPc' = [hPc EXCEPT ![r] = "returned"]
    /\ wg' = wg - 1
    /\ UNCHANGED <<srvPc, opt, nread, reqSeq, reqErr, gPc,
                   headerReads, sendCalls>>

NextServer ==
    \/ ServeConn
    \/ serveCodecRead
    \/ serveCodecBreak
    \/ serveCodecSend
    \/ serveCodecSendBody
    \/ serveCodecClose
    \/ \E r \in Reqs : handlerReturns(r)
    \/ \E r \in Reqs : handlerCalled(r)
    \/ \E r \in Reqs : handlerSend(r)
    \/ \E r \in Reqs : handlerSendBody(r)
    \/ \E r \in Reqs : handlerSent(r)
    \/ \E r \in Reqs : handleRequestTimeout(r)
    \/ \E r \in Reqs : handleRequestSend(r)
    \/ \E r \in Reqs : handleRequestSendBody(r)

\* =========================================================== discovery

MaxTime == 3
MaxDOps == 3
MaxServers == 2

\* Endpoint strings.
Endpoints == {"tcp@a", "tcp@b"}

\* Lists a caller can pass to NewMultiServerDiscovery and Update.
ServerLists == UNION {[1..n -> Endpoints] : n \in 0..MaxServers}

\* SelectMode: RandomSelect and RoundRobinSelect (iota), and a value that
\* is neither.
RandomSelect == 0
RoundRobinSelect == 1
SelectModes == {RandomSelect, RoundRobinSelect, RoundRobinSelect + 1}

\* NewMultiServerDiscovery: index = random.Intn(math.MaxInt32 - 1), a value
\* in [0, MaxInt32 - 1); the smallest two and the largest.
MaxInt32 == 2147483647
InitIndexes == {0, 1, MaxInt32 - 2}

\* const defaultUpdateTimeout = time.Second * 10 (the clock counts seconds)
defaultUpdateTimeout == 10

\* The timeouts a caller passes to NewRegistryDiscovery.
RefreshTimeouts == {0, 2}

\* NewRegistryDiscovery: a timeout of 0 stands for the default.
NewRegistryDiscoveryTimeout(t) == IF t = 0 THEN defaultUpdateTimeout ELSE t

\* The zero time.Time that lastUpdate holds until the first Update or
\* successful Refresh; the program runs long after it.
ZeroTime == 0
StartTime == ZeroTime + defaultUpdateTimeout + 1

\* What http.Get(d.registry) can give: an error, or a response whose
\* X-rpc-Servers header is a comma-separated string, here the sequence of
\* its fields (strings.Split yields at least one field, "" for no header).
Headers ==
    {<<"">>, <<"tcp@a">>, <<"tcp@a", " tcp@b ">>, <<" tcp@b ", "", "tcp@a">>}
FetchResults ==
    {[err |-> TRUE, fields |-> <<>>]} \cup {[err |-> FALSE, fields |-> h] : h \in Headers}


\* strings.TrimSpace on a header field.
TrimSpace(f) == IF f = " tcp@b " THEN "tcp@b" ELSE f

\* Refresh: the fields that are not blank, trimmed, in their order.
RECURSIVE ParseServers(_)
ParseServers(fields) ==
    IF fields = <<>> THEN <<>>
    ELSE LET rest == ParseServers(Tail(fields))
         IN  IF TrimSpace(Head(fields)) # ""
             THEN <<TrimSpace(Head(fields))>> \o rest
             ELSE rest

\* A Refresh that never finds the list fresh.
FreshNever(lu, t, now) == FALSE

\* Refresh: d.lastUpdate.Add(d.timeout).After(time.Now())
Fresh(lu, t, now) == lu + t > now

\* Refresh reaches http.Get only for a registry-backed discovery whose list
\* is not fresh; otherwise there is no fetch and no outcome to choose.
NoFetch == [err |-> FALSE, fields |-> <<"">>]
FetchOutcomes ==
    IF dKind = "registry" /\ ~Fresh(lastUpdate, dTimeout, dNow)
    THEN FetchResults ELSE {NoFetch}

\* A Refresh that goes on after a failed http.Get, with the empty header.
RefreshResultErrIgnored(f) ==
    IF dKind = "static" \/ Fresh(lastUpdate, dTimeout, dNow)
    THEN [fetched |-> FALSE, err |-> FALSE, servers |-> dServers, lastUpdate |-> lastUpdate]
    ELSE [fetched |-> TRUE, err |-> FALSE,
          servers |-> IF f.err THEN <<>> ELSE ParseServers(f.fields),
          lastUpdate |-> dNow]

\* Refresh, given what http.Get would return: whether it fetched, whether
\* it returns an error, and d.servers and d.lastUpdate afterwards.
\* MultiServersDiscovery.Refresh does nothing.
RefreshResult(f) ==
    IF dKind = "static" \/ Fresh(lastUpdate, dTimeout, dNow)
    THEN [fetched |-> FALSE, err |-> FALSE, servers |-> dServers, lastUpdate |-> lastUpdate]
    ELSE IF f.err
    THEN [fetched |-> TRUE, err |-> TRUE, servers |-> dServers, lastUpdate |-> lastUpdate]
    ELSE [fetched |-> TRUE, err |-> FALSE, servers |-> ParseServers(f.fields),
          lastUpdate |-> dNow]

\* MultiServersDiscovery.Get, case RoundRobinSelect, on the receiver d:
\* the endpoint returned and d.index afterwards.
GetRoundRobin(servers, index) ==
    LET n == Len(servers)
    IN  [s |-> servers[(index % n) + 1], index |-> (index + 1) % n]

\* Get is declared on the value MultiServersDiscovery, not on the pointer:
\* its receiver d is a copy of the discovery, and the index assigned in the
\* copy is dropped when Get returns.  The cursor the discovery holds after
\* a Get that left index i in its copy:
IndexAfterGet(stored, i) == stored

\* The record of one call.
\*   fetched  it called http.Get        failed  http.Get returned an error
\*   err      the error it returned     val     the value it returned
OpRecord(op, fetched, failed, err, val) ==
    [op |-> op, fetched |-> fetched, failed |-> failed, err |-> err, val |-> val]

\* Before a discovery is constructed.
InitDiscovery ==
    /\ dKind = "none"
    /\ dTimeout = 0
    /\ dServers = <<>>
    /\ dIndex = 0
    /\ lastUpdate = ZeroTime
    /\ dNow = StartTime
    /\ dOps = 0
    /\ dOp = OpRecord("none", FALSE, FALSE, "", <<>>)
    /\ rrLog = <<>>
    /\ rrStart = 0

\* NewMultiServerDiscovery(servers): the cursor starts at a random index.
NewMultiServerDiscovery ==
    /\ DiscoveryFrame
    /\ dKind = "none"
    /\ dKind' = "static"
    /\ dServers' \in ServerLists
    /\ dIndex' \in InitIndexes
    /\ UNCHANGED <<lastUpdate, dTimeout, dNow, dOps, dOp, rrLog, rrStart>>

\* NewRegistryDiscovery(registerAddr, timeout): an empty list, the zero
\* lastUpdate, a random cursor.
NewRegistryDiscovery ==
    /\ DiscoveryFrame
    /\ dKind = "none"
    /\ dKind' = "registry"
    /\ \E t \in RefreshTimeouts : dTimeout' = NewRegistryDiscoveryTimeout(t)
    /\ dServers' = <<>>
    /\ dIndex' \in InitIndexes
    /\ UNCHANGED <<lastUpdate, dNow, dOps, dOp, rrLog, rrStart>>

\* Time passes.
DiscoveryTick ==
    /\ DiscoveryFrame
    /\ dKind # "none"
    /\ dNow < StartTime + MaxTime
    /\ dNow' = dNow + 1
    /\ UNCHANGED <<dKind, dServers, dIndex, lastUpdate, dTimeout, dOps, dOp,
                   rrLog, rrStart>>

\* Update(servers): replace the list; the registry-backed discovery also
\* stamps lastUpdate.
Update ==
    /\ DiscoveryFrame
    /\ dKind # "none"
    /\ dOps < MaxDOps
    /\ \E list \in ServerLists :
         /\ dServers' = list
         /\ dOp' = OpRecord("Update", FALSE, FALSE, "", list)
    /\ lastUpdate' = IF dKind = "registry" THEN dNow ELSE lastUpdate
    /\ dOps' = dOps + 1
    /\ rrLog' = <<>>
    /\ UNCHANGED <<dKind, dIndex, dTimeout, dNow, rrStart>>

\* Refresh()
Refresh ==
    /\ DiscoveryFrame
    /\ dKind # "none"
    /\ dOps < MaxDOps
    /\ \E f \in FetchOutcomes :
         LET r == RefreshResult(f)
         IN  /\ dServers' = r.servers
             /\ lastUpdate' = r.lastUpdate
             /\ dOp' = OpRecord("Refresh", r.fetched, r.fetched /\ f.err,
                                IF r.err THEN "fetch error" ELSE "", <<>>)
             /\ rrLog' = IF r.fetched /\ ~r.err THEN <<>> ELSE rrLog
    /\ dOps' = dOps + 1
    /\ UNCHANGED <<dKind, dIndex, dTimeout, dNow, rrStart>>

\* Get(mode): Refresh, then MultiServersDiscovery.Get unless Refresh failed.
Get ==
    /\ DiscoveryFrame
    /\ dKind # "none"
    /\ dOps < MaxDOps
    /\ \E f \in FetchOutcomes : \E mode \in SelectModes :
         LET r == RefreshResult(f)
             n == Len(r.servers)
             log == IF r.fetched /\ ~r.err THEN <<>> ELSE rrLog
         IN  /\ dServers' = r.servers
             /\ lastUpdate' = r.lastUpdate
             /\ CASE r.err ->
                       /\ dOp' = OpRecord("Get", r.fetched, r.fetched /\ f.err, "fetch error", <<>>)
                       /\ UNCHANGED <<dIndex, rrStart>>
                       /\ rrLog' = log
                  [] ~r.err /\ n = 0 ->
                       /\ dOp' = OpRecord("Get", r.fetched, r.fetched /\ f.err,
                                          "rpc discovery - no available servers", <<>>)
                       /\ UNCHANGED <<dIndex, rrStart>>
                       /\ rrLog' = log
                  [] ~r.err /\ n > 0 /\ mode = RandomSelect ->
                       /\ \E i \in 1..n :
                            dOp' = OpRecord("Get", r.fetched, r.fetched /\ f.err, "", <<r.servers[i]>>)
                       /\ UNCHANGED <<dIndex, rrStart>>
                       /\ rrLog' = log
                  [] ~r.err /\ n > 0 /\ mode = RoundRobinSelect ->
                       LET g == GetRoundRobin(r.servers, dIndex)
                       IN  /\ dOp' = OpRecord("Get", r.fetched, r.fetched /\ f.err, "", <<g.s>>)
                           /\ dIndex' = IndexAfterGet(dIndex, g.index)
                           /\ rrStart' = IF log = <<>> THEN dIndex ELSE rrStart
                           /\ rrLog' = Append(log, g.s)
                  [] OTHER ->
                       /\ dOp' = OpRecord("Get", r.fetched, r.fetched /\ f.err,
                                          "rpc discovery - not supported select mode", <<>>)
                       /\ UNCHANGED <<dIndex, rrStart>>
                       /\ rrLog' = log
    /\ dOps' = dOps + 1
    /\ UNCHANGED <<dKind, dTimeout, dNow>>

\* GetAll(): Refresh, then a copy of the list unless Refresh failed.
GetAll ==
    /\ DiscoveryFrame
    /\ dKind # "none"
    /\ dOps < MaxDOps
    /\ \E f \in FetchOutcomes :
         LET r == RefreshResult(f)
         IN  /\ dServers' = r.servers
             /\ lastUpdate' = r.lastUpdate
             /\ dOp' = OpRecord("GetAll", r.fetched, r.fetched /\ f.err,
                                IF r.err THEN "fetch error" ELSE "",
                                IF r.err THEN <<>> ELSE r.servers)
             /\ rrLog' = IF r.fetched /\ ~r.err THEN <<>> ELSE rrLog
    /\ dOps' = dOps + 1
    /\ UNCHANGED <<dKind, dIndex, dTimeout, dNow, rrStart>>

NextDiscovery ==
    \/ NewMultiServerDiscovery
    \/ NewRegistryDiscovery
    \/ DiscoveryTick
    \/ Update
    \/ Refresh
    \/ Get
    \/ GetAll

\* ============================================================ registry

MaxClock == 6
MaxRGets == 2

\* const defaultTimeout = time.Minute * 5 (the registry's clock counts
\* minutes)
defaultTimeout == 5

\* The timeouts New is called with: 0 (entries never expire), a short one,
\* and the default of DefaultRegister.
RegistryTimeouts == {0, 3, defaultTimeout}

\* The durations Heartbeat is called with: 0 stands for the default.
HeartbeatDurations == {0, 2}

\* Heartbeat: the period of the ticker.
HeartbeatPeriod(duration) == IF duration = 0 THEN defaultTimeout - 1 ELSE duration

\* The X-rpc-Server values a POST can carry.
PostedAddrs == Endpoints \cup {""}

\* The order of strings that sort.Strings sorts by.
StringRank(a) == IF a = "tcp@a" THEN 1 ELSE 2
StringLess(a, b) == StringRank(a) < StringRank(b)

\* sort.Strings
RECURSIVE InsertSorted(_, _)
InsertSorted(a, sorted) ==
    IF sorted = <<>> THEN <<a>>
    ELSE IF StringLess(Head(sorted), a)
    THEN <<Head(sorted)>> \o InsertSorted(a, Tail(sorted))
    ELSE <<a>> \o sorted
RECURSIVE SortStrings(_)
SortStrings(list) ==
    IF list = <<>> THEN <<>> ELSE InsertSorted(Head(list), SortStrings(Tail(list)))

\* The orders in which `for addr, s := range r.servers` can visit a map.
RangeOrders(m) ==
    {o \in [1..Cardinality(DOMAIN m) -> DOMAIN m] :
        \A i, j \in DOMAIN o : i # j => o[i] # o[j]}

\* aliveServers: r.timeout == 0 || s.start.Add(r.timeout).After(time.Now())
IsAlive(start, timeout, now) == timeout = 0 \/ start + timeout > now

\* aliveServers, visiting the map in order o: the sorted list returned and
\* the map afterwards.
RECURSIVE AliveIn(_, _)
AliveIn(o, m) ==
    IF o = <<>> THEN <<>>
    ELSE IF IsAlive(m[Head(o)], rTimeout, rNow)
    THEN <<Head(o)>> \o AliveIn(Tail(o), m)
    ELSE AliveIn(Tail(o), m)
aliveServers(o, m) ==
    [alive |-> SortStrings(AliveIn(o, m)),
     servers |-> [a \in {x \in DOMAIN m : IsAlive(m[x], rTimeout, rNow)} |-> m[a]]]

\* A putServer that leaves the start of an entry it already has.
putServerNoRestart(m, addr) ==
    [a \in DOMAIN m \cup {addr} |-> IF a \in DOMAIN m THEN m[a] ELSE rNow]

\* putServer(addr): add the entry or restart it, start = time.Now().
putServer(m, addr) == [a \in DOMAIN m \cup {addr} |-> IF a = addr THEN rNow ELSE m[a]]

\* The heartbeat sender before Heartbeat is called; sent is the history of
\* its sendHeartbeat calls, the minute of each and whether it returned nil.
NoHeartbeat == [state |-> "off", addr |-> "", period |-> 0, next |-> 0, sent |-> <<>>]

\* A loop that goes on after a failed send.
HeartbeatLoopsOnError(ok) == "running"

\* `for err == nil`: the loop takes another turn only after a send that
\* returned nil, the one before the goroutine included.
HeartbeatLoops(ok) == IF ok THEN "running" ELSE "stopped"

\* Before a registry is constructed.
InitRegistry ==
    /\ rPc = "none"
    /\ rTimeout = 0
    /\ rServers = <<>>
    /\ rNow = 0
    /\ hb = NoHeartbeat
    /\ rGets = 0
    /\ lastGet = [at |-> 0, alive |-> <<>>]

\* New(timeout)
New ==
    /\ RegistryFrame
    /\ rPc = "none"
    /\ rPc' = "serving"
    /\ rTimeout' \in RegistryTimeouts
    /\ UNCHANGED <<rServers, rNow, hb, rGets, lastGet>>

\* Time passes; a ticker that is due fires before it does.
RegistryTick ==
    /\ RegistryFrame
    /\ rPc = "serving"
    /\ rNow < MaxClock
    /\ ~(hb.state = "running" /\ hb.next = rNow)
    /\ rNow' = rNow + 1
    /\ UNCHANGED <<rPc, rTimeout, rServers, hb, rGets, lastGet>>

\* ServeHTTP, case "GET": the header is the join of aliveServers().
ServeGet ==
    /\ RegistryFrame
    /\ rPc = "serving"
    /\ rGets < MaxRGets
    /\ \E o \in RangeOrders(rServers) :
         LET r == aliveServers(o, rServers)
         IN  /\ lastGet' = [at |-> rNow, alive |-> r.alive]
             /\ rServers' = r.servers
    /\ rGets' = rGets + 1
    /\ UNCHANGED <<rPc, rTimeout, rNow, hb>>

\* ServeHTTP, case "POST", sent by anyone: an empty X-rpc-Server is
\* refused, any other address is put.
ServePost ==
    /\ RegistryFrame
    /\ rPc = "serving"
    /\ \E addr \in PostedAddrs :
         rServers' = IF addr = "" THEN rServers ELSE putServer(rServers, addr)
    /\ UNCHANGED <<rPc, rTimeout, rNow, hb, rGets, lastGet>>

\* Heartbeat(registry, addr, duration): the first sendHeartbeat, at once;
\* the ticker loop runs only while no send has failed.
Heartbeat ==
    /\ RegistryFrame
    /\ rPc = "serving"
    /\ hb.state = "off"
    /\ \E addr \in Endpoints : \E duration \in HeartbeatDurations : \E ok \in BOOLEAN :
         /\ hb' = [state |-> HeartbeatLoops(ok),
                   addr |-> addr,
                   period |-> HeartbeatPeriod(duration),
                   next |-> rNow + HeartbeatPeriod(duration),
                   sent |-> <<[at |-> rNow, ok |-> ok]>>]
         /\ rServers' = IF ok THEN putServer(rServers, addr) ELSE rServers
    /\ UNCHANGED <<rPc, rTimeout, rNow, rGets, lastGet>>

\* Heartbeat's goroutine: the ticker fires, sendHeartbeat; a failed send
\* ends the loop.
HeartbeatTick ==
    /\ RegistryFrame
    /\ rPc = "serving"
    /\ hb.state = "running"
    /\ hb.next = rNow
    /\ \E ok \in BOOLEAN :
         /\ hb' = [hb EXCEPT !.state = HeartbeatLoops(ok),
                             !.next = rNow + hb.period,
                             !.sent = Append(hb.sent, [at |-> rNow, ok |-> ok])]
         /\ rServers' = IF ok THEN putServer(rServers, hb.addr) ELSE rServers
    /\ UNCHANGED <<rPc, rTimeout, rNow, rGets, lastGet>>

NextRegistry ==
    \/ New
    \/ RegistryTick
    \/ ServeGet
    \/ ServePost
    \/ Heartbeat
    \/ HeartbeatTick

\* ================================================ client, lock by lock
\* The same Client with its two mutexes taken and released in steps of
\* their own: sendingMutex (held across send and terminateCalls) and mutex
\* (held inside Close, IsAvailable, registerCall, removeCall and
\* terminateCalls).  The goroutines are the callers, the receiver, one
\* that calls Close and one that calls IsAvailable.

\* The goroutines that are not callers.
Receiver == MaxCalls + 1
Closer == MaxCalls + 2
Prober == MaxCalls + 3
Goroutines == Calls \cup {Receiver, Closer, Prober}

\* Nobody holds the mutex.
Unlocked == 0

\* A terminateCalls that locks the state mutex first.
terminateCallsLocksStateFirst == <<"mutex", "sendingMutex">>

\* terminateCalls: client.sendingMutex.Lock(), then client.mutex.Lock().
terminateCallsLocks == <<"sendingMutex", "mutex">>

\* Who holds the mutex of that name.
Holder(name) == IF name = "sendingMutex" THEN sendingMutex ELSE mutex

\* Lock() on the mutex of that name by goroutine t: blocks until it is
\* free, then t holds it and has it last in its list of held locks.
Lock(t, name) ==
    /\ Holder(name) = Unlocked
    /\ sendingMutex' = IF name = "sendingMutex" THEN t ELSE sendingMutex
    /\ mutex' = IF name = "mutex" THEN t ELSE mutex
    /\ lockOrder' = [lockOrder EXCEPT ![t] = Append(@, name)]

\* Unlock() on the mutex of that name by its holder t.
Unlock(t, name) ==
    /\ sendingMutex' = IF name = "sendingMutex" THEN Unlocked ELSE sendingMutex
    /\ mutex' = IF name = "mutex" THEN Unlocked ELSE mutex
    /\ lockOrder' = [lockOrder EXCEPT ![t] = SelectSeq(@, LAMBDA n : n # name)]

InitLocks ==
    /\ mutex = Unlocked
    /\ lockOrder = [t \in Goroutines |-> <<>>]
    /\ closePc = "idle"
    /\ availPc = "idle"
    /\ unavailableSeen = FALSE

\* send: client.sendingMutex.Lock()
sendLock(c) ==
    /\ LockFrame
    /\ callPc[c] = "idle"
    /\ Lock(c, "sendingMutex")
    /\ callPc' = [callPc EXCEPT ![c] = "registerCall"]
    /\ UNCHANGED <<seq, pending, closing, shutdown, header, callSeq,
                   callError, callReply, doneCount, callRet, connUp, bufErr,
                   wire, inbox, responded, recvPc, recvH, recvCall, closeLog,
                   filledBy, endedBy, discarded, pendingAtClose,
                   closePc, availPc, unavailableSeen>>

\* send -> registerCall: client.mutex.Lock()
registerCallLock(c) ==
    /\ LockFrame
    /\ callPc[c] = "registerCall"
    /\ Lock(c, "mutex")
    /\ callPc' = [callPc EXCEPT ![c] = "registerCall_locked"]
    /\ UNCHANGED <<seq, pending, closing, shutdown, header, callSeq,
                   callError, callReply, doneCount, callRet, connUp, bufErr,
                   wire, inbox, responded, recvPc, recvH, recvCall, closeLog,
                   filledBy, endedBy, discarded, pendingAtClose,
                   closePc, availPc, unavailableSeen>>

\* registerCall under the state mutex, and its deferred Unlock.
registerCall(c) ==
    /\ LockFrame
    /\ callPc[c] = "registerCall_locked"
    /\ Unlock(c, "mutex")
    /\ IF registerCallRefused
       THEN /\ callPc' = [callPc EXCEPT ![c] = "refused"]
            /\ UNCHANGED <<seq, pending, callSeq>>
       ELSE /\ callSeq' = [callSeq EXCEPT ![c] = seq]
            /\ pending' = registerCallPending(pending, seq, c)
            /\ seq' = registerCallNextSeq(seq)
            /\ callPc' = [callPc EXCEPT ![c] = "write"]
    /\ UNCHANGED <<closing, shutdown, header,
                   callError, callReply, doneCount, callRet, connUp, bufErr,
                   wire, inbox, responded, recvPc, recvH, recvCall, closeLog,
                   filledBy, endedBy, discarded, pendingAtClose,
                   closePc, availPc, unavailableSeen>>

\* send: registerCall returned ErrShutdown: complete the call with it and
\* return (deferred sendingMutex.Unlock).
sendRefused(c) ==
    /\ LockFrame
    /\ callPc[c] = "refused"
    /\ callError' = [callError EXCEPT ![c] = "ErrShutdown"]
    /\ doneCount' = [doneCount EXCEPT ![c] = @ + 1]
    /\ Unlock(c, "sendingMutex")
    /\ callPc' = [callPc EXCEPT ![c] = "wait"]
    /\ UNCHANGED <<seq, pending, closing, shutdown, header, callSeq,
                   callReply, callRet, connUp, bufErr,
                   wire, inbox, responded, recvPc, recvH, recvCall, closeLog,
                   filledBy, endedBy, discarded, pendingAtClose,
                   closePc, availPc, unavailableSeen>>

\* send: fill client.header and cc.Write(&client.header, call.Args).  With
\* no error send returns (deferred sendingMutex.Unlock); with one it goes
\* on to removeCall.
sendCodecWrite(c) ==
    /\ LockFrame
    /\ callPc[c] = "write"
    /\ \E encodable \in BOOLEAN :
         LET w == GobCodecWrite(connUp, bufErr, encodable)
         IN  /\ wire' = WireAfter(wire, w.out, callSeq[c])
             /\ connUp' = w.up
             /\ bufErr' = w.berr
             /\ IF w.err
                THEN /\ callPc' = [callPc EXCEPT ![c] = "removeCall"]
                     /\ UNCHANGED <<sendingMutex, mutex, lockOrder>>
                ELSE /\ callPc' = [callPc EXCEPT ![c] = "wait"]
                     /\ Unlock(c, "sendingMutex")
    /\ header' = callSeq[c]
    /\ UNCHANGED <<seq, pending, closing, shutdown, callSeq,
                   callError, callReply, doneCount, callRet,
                   inbox, responded, recvPc, recvH, recvCall, closeLog,
                   filledBy, endedBy, discarded, pendingAtClose,
                   closePc, availPc, unavailableSeen>>

\* send -> removeCall(seq): client.mutex.Lock()
sendRemoveCallLock(c) ==
    /\ LockFrame
    /\ callPc[c] = "removeCall"
    /\ Lock(c, "mutex")
    /\ callPc' = [callPc EXCEPT ![c] = "removeCall_locked"]
    /\ UNCHANGED <<seq, pending, closing, shutdown, header, callSeq,
                   callError, callReply, doneCount, callRet, connUp, bufErr,
                   wire, inbox, responded, recvPc, recvH, recvCall, closeLog,
                   filledBy, endedBy, discarded, pendingAtClose,
                   closePc, availPc, unavailableSeen>>

\* removeCall under the state mutex and its deferred Unlock; then send
\* completes the call it got with the write error and returns (deferred
\* sendingMutex.Unlock).
sendRemoveCall(c) ==
    /\ LockFrame
    /\ callPc[c] = "removeCall_locked"
    /\ LET call == removeCall(pending, callSeq[c])
       IN  /\ pending' = removeCallPending(pending, callSeq[c])
           /\ IF call # NoCall
              THEN /\ callError' = [callError EXCEPT ![call] = "write"]
                   /\ doneCount' = [doneCount EXCEPT ![call] = @ + 1]
                   /\ endedBy' = [endedBy EXCEPT ![call] = "sendfail"]
              ELSE UNCHANGED <<callError, doneCount, endedBy>>
    /\ sendingMutex' = Unlocked
    /\ mutex' = Unlocked
    /\ lockOrder' = [lockOrder EXCEPT ![c] = <<>>]
    /\ callPc' = [callPc EXCEPT ![c] = "wait"]
    /\ UNCHANGED <<seq, closing, shutdown, header, callSeq,
                   callReply, callRet, connUp, bufErr,
                   wire, inbox, responded, recvPc, recvH, recvCall, closeLog,
                   filledBy, discarded, pendingAtClose,
                   closePc, availPc, unavailableSeen>>

\* Call: case <-ctx.Done(): removeCall(call.Seq): client.mutex.Lock()
CallCtxDoneLock(c) ==
    /\ LockFrame
    /\ callPc[c] = "wait"
    /\ Lock(c, "mutex")
    /\ callPc' = [callPc EXCEPT ![c] = "ctx_locked"]
    /\ UNCHANGED <<seq, pending, closing, shutdown, header, callSeq,
                   callError, callReply, doneCount, callRet, connUp, bufErr,
                   wire, inbox, responded, recvPc, recvH, recvCall, closeLog,
                   filledBy, endedBy, discarded, pendingAtClose,
                   closePc, availPc, unavailableSeen>>

\* ... removeCall under the state mutex, Unlock, return the ctx error.
CallCtxDoneRemoveCall(c) ==
    /\ LockFrame
    /\ callPc[c] = "ctx_locked"
    /\ Unlock(c, "mutex")
    /\ pending' = removeCallPending(pending, callSeq[c])
    /\ endedBy' = IF removeCall(pending, callSeq[c]) # NoCall /\ endedBy[c] = "none"
                  THEN [endedBy EXCEPT ![c] = "cancel"]
                  ELSE endedBy
    /\ callPc' = [callPc EXCEPT ![c] = "ret_cancel"]
    /\ callRet' = [callRet EXCEPT ![c] = "rpc client - call failed: ctx"]
    /\ UNCHANGED <<seq, closing, shutdown, header, callSeq,
                   callError, callReply, doneCount, connUp, bufErr,
                   wire, inbox, responded, recvPc, recvH, recvCall, closeLog,
                   filledBy, discarded, pendingAtClose,
                   closePc, availPc, unavailableSeen>>

\* Close: client.mutex.Lock()
CloseLock ==
    /\ LockFrame
    /\ closePc = "idle"
    /\ Len(closeLog) < MaxClose
    /\ Lock(Closer, "mutex")
    /\ closePc' = "locked"
    /\ UNCHANGED <<seq, pending, closing, shutdown, header, callPc, callSeq,
                   callError, callReply, doneCount, callRet, connUp, bufErr,
                   wire, inbox, responded, recvPc, recvH, recvCall, closeLog,
                   filledBy, endedBy, discarded, pendingAtClose, availPc, unavailableSeen>>

\* Close under the state mutex, and its deferred Unlock.
CloseLocked ==
    /\ LockFrame
    /\ closePc = "locked"
    /\ Unlock(Closer, "mutex")
    /\ closePc' = "idle"
    /\ IF CloseAlreadyClosing
       THEN /\ closeLog' = Append(closeLog, [ret |-> "ErrShutdown", ccClose |-> FALSE])
            /\ UNCHANGED <<closing, connUp, pendingAtClose>>
       ELSE /\ closing' = TRUE
            /\ connUp' = GobCodecClose(connUp)
            /\ closeLog' = Append(closeLog, [ret |-> "cc.Close", ccClose |-> TRUE])
            /\ pendingAtClose' = PendingCalls(pending)
    /\ UNCHANGED <<seq, pending, shutdown, header, callPc, callSeq,
                   callError, callReply, doneCount, callRet, bufErr,
                   wire, inbox, responded, recvPc, recvH, recvCall,
                   filledBy, endedBy, discarded, availPc, unavailableSeen>>

\* IsAvailable: client.mutex.Lock().  unavailableSeen remembers that the
\* call before this one returned false.
IsAvailableLock ==
    /\ LockFrame
    /\ availPc # "locked"
    /\ Lock(Prober, "mutex")
    /\ availPc' = "locked"
    /\ unavailableSeen' = (unavailableSeen \/ availPc = "false")
    /\ UNCHANGED <<clientData, closePc>>

\* IsAvailable under the state mutex: read the two flags, Unlock, return
\* (availPc keeps what it returned).
IsAvailableLocked ==
    /\ LockFrame
    /\ availPc = "locked"
    /\ Unlock(Prober, "mutex")
    /\ availPc' = IF IsAvailable THEN "true" ELSE "false"
    /\ UNCHANGED <<clientData, closePc, unavailableSeen>>

\* receive: cc.ReadHeader(&h) returns a header; next is removeCall(h.Seq).
receiveReadHeader ==
    /\ LockFrame
    /\ recvPc = "header"
    /\ inbox # <<>>
    /\ recvH' = [Seq |-> Head(inbox).Seq, Error |-> Head(inbox).Error]
    /\ recvPc' = "removeCall"
    /\ UNCHANGED <<seq, pending, closing, shutdown, header, callPc,
                   callSeq, callError, callReply, doneCount, callRet, connUp,
                   bufErr, wire, inbox, responded, recvCall, closeLog,
                   filledBy, endedBy, discarded, pendingAtClose,
                   sendingMutex, lockVars>>

\* receive -> removeCall(h.Seq): client.mutex.Lock()
receiveRemoveCallLock ==
    /\ LockFrame
    /\ recvPc = "removeCall"
    /\ Lock(Receiver, "mutex")
    /\ recvPc' = "removeCall_locked"
    /\ UNCHANGED <<seq, pending, closing, shutdown, header, callPc,
                   callSeq, callError, callReply, doneCount, callRet, connUp,
                   bufErr, wire, inbox, responded, recvH, recvCall, closeLog,
                   filledBy, endedBy, discarded, pendingAtClose,
                   closePc, availPc, unavailableSeen>>

\* ... removeCall under the state mutex and its deferred Unlock; next is
\* the switch on the call it returned.
receiveRemoveCall ==
    /\ LockFrame
    /\ recvPc = "removeCall_locked"
    /\ Unlock(Receiver, "mutex")
    /\ LET call == removeCall(pending, recvH.Seq)
       IN  /\ recvCall' = call
           /\ pending' = removeCallPending(pending, recvH.Seq)
           /\ endedBy' = IF call # NoCall /\ endedBy[call] = "none"
                         THEN [endedBy EXCEPT ![call] = "response"]
                         ELSE endedBy
    /\ recvPc' = "body"
    /\ UNCHANGED <<seq, closing, shutdown, header, callPc,
                   callSeq, callError, callReply, doneCount, callRet, connUp,
                   bufErr, wire, inbox, responded, recvH, closeLog,
                   filledBy, discarded, pendingAtClose,
                   closePc, availPc, unavailableSeen>>

\* terminateCalls: the first Lock.
terminateCallsLock1 ==
    /\ LockFrame
    /\ recvPc = "terminate"
    /\ Lock(Receiver, terminateCallsLocks[1])
    /\ recvPc' = "terminate_lock2"
    /\ UNCHANGED <<seq, pending, closing, shutdown, header, callPc,
                   callSeq, callError, callReply, doneCount, callRet, connUp,
                   bufErr, wire, inbox, responded, recvH, recvCall, closeLog,
                   filledBy, endedBy, discarded, pendingAtClose,
                   closePc, availPc, unavailableSeen>>

\* terminateCalls: the second Lock.
terminateCallsLock2 ==
    /\ LockFrame
    /\ recvPc = "terminate_lock2"
    /\ Lock(Receiver, terminateCallsLocks[2])
    /\ recvPc' = "terminate_locked"
    /\ UNCHANGED <<seq, pending, closing, shutdown, header, callPc,
                   callSeq, callError, callReply, doneCount, callRet, connUp,
                   bufErr, wire, inbox, responded, recvH, recvCall, closeLog,
                   filledBy, endedBy, discarded, pendingAtClose,
                   closePc, availPc, unavailableSeen>>

\* terminateCalls under both locks: set shutdown, complete every pending
\* call with err; then the deferred Unlocks, the receiver goroutine ends.
terminateCallsLocked ==
    /\ LockFrame
    /\ recvPc = "terminate_locked"
    /\ shutdown' = TRUE
    /\ callError' = [c \in Calls |-> IF c \in PendingCalls(pending) THEN "terminated"
                                     ELSE callError[c]]
    /\ doneCount' = terminateCallsDone(doneCount, pending)
    /\ endedBy' = [c \in Calls |-> IF c \in PendingCalls(pending) /\ endedBy[c] = "none"
                                   THEN "terminate" ELSE endedBy[c]]
    /\ sendingMutex' = Unlocked
    /\ mutex' = Unlocked
    /\ lockOrder' = [lockOrder EXCEPT ![Receiver] = <<>>]
    /\ recvPc' = "exited"
    /\ UNCHANGED <<seq, pending, closing, header, callPc,
                   callSeq, callReply, callRet, connUp, bufErr, wire, inbox,
                   responded, recvH, recvCall, closeLog, filledBy, discarded,
                   pendingAtClose, closePc, availPc, unavailableSeen>>

NextClientLocks ==
    \/ \E c \in Calls : sendLock(c)
    \/ \E c \in Calls : registerCallLock(c)
    \/ \E c \in Calls : registerCall(c)
    \/ \E c \in Calls : sendRefused(c)
    \/ \E c \in Calls : sendCodecWrite(c)
    \/ \E c \in Calls : sendRemoveCallLock(c)
    \/ \E c \in Calls : sendRemoveCall(c)
    \/ \E c \in Calls : CallDone(c)
    \/ \E c \in Calls : CallCtxDoneLock(c)
    \/ \E c \in Calls : CallCtxDoneRemoveCall(c)
    \/ CloseLock
    \/ CloseLocked
    \/ IsAvailableLock
    \/ IsAvailableLocked
    \/ receiveReadHeader
    \/ receiveHeaderErr
    \/ receiveRemoveCallLock
    \/ receiveRemoveCall
    \/ receiveBody
    \/ terminateCallsLock1
    \/ terminateCallsLock2
    \/ terminateCallsLocked
    \/ PeerRespond
    \/ PeerClose

\* ============================================ discovery, several callers
\* One RegistryDiscovery used by MaxCallers goroutines, each calling Get or
\* GetAll once.  Refresh holds d.mutex from its Lock to its return, the
\* http.Get included; the clock runs meanwhile.

MaxCallers == 2
Callers == 1..MaxCallers

\* A caller's record before it calls.
NoRefreshCall ==
    [op |-> "none", mode |-> 0, stale |-> FALSE, lu |-> ZeroTime, checkedAt |-> 0,
     fetched |-> FALSE, failed |-> FALSE, fetchedAt |-> 0, got |-> <<>>,
     val |-> <<>>, err |-> ""]

InitRefreshers ==
    /\ dMutex = Unlocked
    /\ rfPc = [k \in Callers |-> "idle"]
    /\ rfCall = [k \in Callers |-> NoRefreshCall]

\* MultiServersDiscovery.Get is declared on the value: `d` is a copy of the
\* struct made without the lock, its sync.RWMutex included.  A copy taken
\* while another goroutine holds the mutex is either a copy of a locked
\* mutex, which nobody will unlock (d.mutex.Lock() never returns), or, the
\* unsynchronised read having come first, a copy that can be locked.
GetCopyOutcomes == IF dMutex = Unlocked THEN {"reads"} ELSE {"reads", "blocked"}

\* A Refresh that unlocks before it calls the registry.
FetchHolderNone(k) == Unlocked

\* Refresh's Unlock is deferred: caller k holds d.mutex while its http.Get
\* is in flight.
FetchHolder(k) == k

\* Get or GetAll is called: Refresh is entered and waits for d.mutex.
\*   stale  the list was stale at the call     lu  d.lastUpdate at the call
RefreshCall(k) ==
    /\ RefreshFrame
    /\ dKind = "registry"
    /\ rfPc[k] = "idle"
    /\ \E op \in {"Get", "GetAll"} :
       \E mode \in (IF op = "Get" THEN SelectModes ELSE {RandomSelect}) :
          rfCall' = [rfCall EXCEPT ![k] =
                       [NoRefreshCall EXCEPT !.op = op, !.mode = mode,
                            !.stale = ~Fresh(lastUpdate, dTimeout, dNow),
                            !.lu = lastUpdate]]
    /\ rfPc' = [rfPc EXCEPT ![k] = "lock"]
    /\ UNCHANGED <<discoveryVars, dMutex>>

\* Refresh: d.mutex.Lock(), then the freshness test.  A fresh list: return
\* nil (deferred Unlock).  A stale one: go on to http.Get with the mutex.
RefreshLock(k) ==
    /\ RefreshFrame
    /\ rfPc[k] = "lock"
    /\ dMutex = Unlocked
    /\ rfCall' = [rfCall EXCEPT ![k].checkedAt = dNow]
    /\ IF Fresh(lastUpdate, dTimeout, dNow)
       THEN /\ rfPc' = [rfPc EXCEPT ![k] = "refreshed"]
            /\ UNCHANGED dMutex
       ELSE /\ rfPc' = [rfPc EXCEPT ![k] = "fetching"]
            /\ dMutex' = FetchHolder(k)
    /\ UNCHANGED discoveryVars

\* Refresh: http.Get returns.  An error: return it (Get and GetAll return
\* it in turn).  A response: store the parsed list and time.Now(), return
\* nil.  Either way the deferred Unlock.
RefreshFetched(k) ==
    /\ RefreshFrame
    /\ rfPc[k] = "fetching"
    /\ \E f \in FetchResults :
         LET r == RefreshResult(f)
         IN  /\ dServers' = r.servers
             /\ lastUpdate' = r.lastUpdate
             /\ rrLog' = IF r.err THEN rrLog ELSE <<>>
             /\ rfCall' = [rfCall EXCEPT ![k].fetched = TRUE,
                                         ![k].failed = r.err,
                                         ![k].fetchedAt = dNow,
                                         ![k].got = r.servers,
                                         ![k].err = IF r.err THEN "fetch error" ELSE ""]
             /\ rfPc' = [rfPc EXCEPT ![k] = IF r.err THEN "returned" ELSE "refreshed"]
    /\ dMutex' = Unlocked
    /\ UNCHANGED <<dKind, dIndex, dTimeout, dNow, dOps, dOp, rrStart>>

\* GetAll after Refresh: d.MultiServersDiscovery.GetAll(), a copy of the
\* list under the read lock.
RefreshedGetAll(k) ==
    /\ RefreshFrame
    /\ rfPc[k] = "refreshed"
    /\ rfCall[k].op = "GetAll"
    /\ dMutex = Unlocked
    /\ rfCall' = [rfCall EXCEPT ![k].val = dServers]
    /\ rfPc' = [rfPc EXCEPT ![k] = "returned"]
    /\ UNCHANGED <<discoveryVars, dMutex>>

\* Get after Refresh: d.MultiServersDiscovery.Get(mode) on a copy of the
\* discovery.
RefreshedGet(k) ==
    /\ RefreshFrame
    /\ rfPc[k] = "refreshed"
    /\ rfCall[k].op = "Get"
    /\ \E o \in GetCopyOutcomes :
         IF o = "blocked"
         THEN /\ rfPc' = [rfPc EXCEPT ![k] = "blocked"]
              /\ UNCHANGED rfCall
         ELSE /\ rfPc' = [rfPc EXCEPT ![k] = "returned"]
              /\ LET n == Len(dServers)
                     mode == rfCall[k].mode
                 IN  CASE n = 0 ->
                            rfCall' = [rfCall EXCEPT ![k].err =
                                          "rpc discovery - no available servers"]
                       [] n > 0 /\ mode = RandomSelect ->
                            \E i \in 1..n :
                               rfCall' = [rfCall EXCEPT ![k].val = <<dServers[i]>>]
                       [] n > 0 /\ mode = RoundRobinSelect ->
                            rfCall' = [rfCall EXCEPT ![k].val =
                                          <<GetRoundRobin(dServers, dIndex).s>>]
                       [] OTHER ->
                            rfCall' = [rfCall EXCEPT ![k].err =
                                          "rpc discovery - not supported select mode"]
    /\ UNCHANGED <<discoveryVars, dMutex>>

NextRefreshers ==
    \/ NewRegistryDiscovery
    \/ DiscoveryTick
    \/ \E k \in Callers : RefreshCall(k)
    \/ \E k \in Callers : RefreshLock(k)
    \/ \E k \in Callers : RefreshFetched(k)
    \/ \E k \in Callers : RefreshedGetAll(k)
    \/ \E k \in Callers : RefreshedGet(k)

\* ============================================================== XClient
\* One XClient (xclient) with its cache of Clients.  Broadcast is called up
\* to MaxBroadcasts times, one call at a time; its branches, one goroutine
\* per endpoint of the list, run concurrently with each other, with
\* XClient.Close and with cached Clients losing their connections.

MaxBroadcasts == 2
MaxClients == 3

\* The branches of a Broadcast: one per position in the list.
Branches == 1..MaxServers

\* error values: nil, and errors that remember the branch they arose in.
Nil == <<"nil", 0>>
Err(kind, i) == <<kind, i>>

\* A Client made by XDial for an endpoint.
NewXClientClient(addr) == [addr |-> addr, closing |-> FALSE, shutdown |-> FALSE]

\* Client.IsAvailable on the Client with that id.
ClientIsAvailable(id) == ~xMade[id].shutdown /\ ~xMade[id].closing

\* Client.Close on the Client with that id (ErrShutdown when already
\* closing; XClient drops the result).
ClientClose(made, id) == [made EXCEPT ![id].closing = TRUE]

\* The Clients that are not closed, per endpoint.
LiveClients(addr) ==
    {id \in DOMAIN xMade : xMade[id].addr = addr /\ ~xMade[id].closing}

\* delete(xc.clients, key)
DeleteClient(m, addr) == [a \in DOMAIN m \ {addr} |-> m[a]]

\* xc.clients[rpcAddr] = client
StoreClient(m, addr, id) == [a \in DOMAIN m \cup {addr} |-> IF a = addr THEN id ELSE m[a]]

\* A dial that does not take xc.mutex.
dialMayLockAlways == TRUE

\* dial: xc.mutex.Lock() succeeds.
dialMayLock == xMutex = Unlocked

\* A Broadcast whose branches keep the error recorded last.
recordErrorLast(e, err) == IF err # Nil THEN err ELSE e

\* Broadcast, under its mutex: `if err != nil && e == nil { e = err }`.
recordError(e, err) == IF err # Nil /\ e = Nil THEN err ELSE e

\* ... `if err == nil && !replyDone`: the branch copies its clone to reply.
copiesReply(err, replyDone) == err = Nil /\ ~replyDone

\* The value a branch's call decodes into its clone.
CloneOf(i) == 100 + i

InitXClient ==
    /\ xClients = <<>>
    /\ xMutex = Unlocked
    /\ xMade = <<>>
    /\ bPc = "idle"
    /\ bCount = 0
    /\ bServers = <<>>
    /\ brPc = [i \in Branches |-> "none"]
    /\ brClient = [i \in Branches |-> 0]
    /\ brErr = [i \in Branches |-> Nil]
    /\ bE = Nil
    /\ bReplyNil = FALSE
    /\ bReplyDone = FALSE
    /\ bReply = 0
    /\ bReplyWrites = 0
    /\ bCancelled = FALSE
    /\ bWg = 0
    /\ bOrder = <<>>
    /\ bRet = <<"none", 0>>

\* Broadcast is called: xc.d.GetAll() fails and Broadcast returns the
\* error, or it gives the list and Broadcast starts one goroutine per
\* entry (wg.Add(1) each).  reply is nil or points to the caller's slot.
Broadcast ==
    /\ XClientFrame
    /\ bPc = "idle"
    /\ bCount < MaxBroadcasts
    /\ bCount' = bCount + 1
    /\ bOrder' = <<>>
    /\ bE' = Nil
    /\ bReply' = 0
    /\ bReplyWrites' = 0
    /\ bCancelled' = FALSE
    /\ brClient' = [i \in Branches |-> 0]
    /\ brErr' = [i \in Branches |-> Nil]
    /\ \E getAllFails \in BOOLEAN :
         IF getAllFails
         THEN /\ bRet' = Err("GetAll", 0)
              /\ UNCHANGED <<bPc, bServers, brPc, bWg, bReplyNil, bReplyDone>>
         ELSE /\ \E list \in ServerLists : \E replyNil \in BOOLEAN :
                   /\ bServers' = list
                   /\ bReplyNil' = replyNil
                   /\ bReplyDone' = replyNil
                   /\ brPc' = [i \in Branches |->
                                 IF i <= Len(list) THEN "dial" ELSE "none"]
                   /\ bWg' = Len(list)
              /\ bPc' = "wait"
              /\ bRet' = <<"none", 0>>
    /\ UNCHANGED <<xClients, xMutex, xMade>>

\* branch -> xc.call -> xc.dial: Lock, look the endpoint up, close and
\* delete a cached Client that is not available.  A cached, available
\* Client is returned (deferred Unlock); otherwise next is XDial, with the
\* mutex.
dial(i) ==
    /\ XClientFrame
    /\ brPc[i] = "dial"
    /\ dialMayLock
    /\ LET addr == bServers[i]
           ok == addr \in DOMAIN xClients
       IN  IF ok /\ ClientIsAvailable(xClients[addr])
           THEN /\ brClient' = [brClient EXCEPT ![i] = xClients[addr]]
                /\ brPc' = [brPc EXCEPT ![i] = "call"]
                /\ UNCHANGED <<xClients, xMade, xMutex>>
           ELSE /\ xMade' = IF ok THEN ClientClose(xMade, xClients[addr]) ELSE xMade
                /\ xClients' = IF ok THEN DeleteClient(xClients, addr) ELSE xClients
                /\ xMutex' = i
                /\ brPc' = [brPc EXCEPT ![i] = "XDial"]
                /\ UNCHANGED brClient
    /\ UNCHANGED <<bPc, bCount, bServers, brErr, bE, bReplyNil, bReplyDone,
                   bReply, bReplyWrites, bCancelled, bWg, bOrder, bRet>>

\* dial: XDial(rpcAddr, xc.opt) returns an error, which dial and xc.call
\* return, or a new Client, which dial caches and returns (deferred Unlock).
dialXDial(i) ==
    /\ XClientFrame
    /\ brPc[i] = "XDial"
    /\ \E fails \in {TRUE} \cup {f \in {FALSE} : Len(xMade) < MaxClients} :
         IF fails
         THEN /\ brErr' = [brErr EXCEPT ![i] = Err("XDial", i)]
              /\ brPc' = [brPc EXCEPT ![i] = "record"]
              /\ UNCHANGED <<xClients, xMade, brClient>>
         ELSE /\ xMade' = Append(xMade, NewXClientClient(bServers[i]))
              /\ xClients' = StoreClient(xClients, bServers[i], Len(xMade) + 1)
              /\ brClient' = [brClient EXCEPT ![i] = Len(xMade) + 1]
              /\ brPc' = [brPc EXCEPT ![i] = "call"]
              /\ UNCHANGED brErr
    /\ xMutex' = Unlocked
    /\ UNCHANGED <<bPc, bCount, bServers, bE, bReplyNil, bReplyDone,
                   bReply, bReplyWrites, bCancelled, bWg, bOrder, bRet>>

\* xc.call: client.Call(ctx, serviceMethod, args, clonedReply) returns:
\* nil with the clone filled, the error of the call (ErrShutdown at once
\* when the Client is not available), or, once ctx is cancelled, the
\* ctx error.
call(i) ==
    /\ XClientFrame
    /\ brPc[i] = "call"
    /\ \E r \in (IF ClientIsAvailable(brClient[i])
                 THEN {Nil, Err("call", i)} ELSE {Err("ErrShutdown", i)})
                \cup {Err("ctx", i) : x \in {y \in {1} : bCancelled}} :
          brErr' = [brErr EXCEPT ![i] = r]
    /\ brPc' = [brPc EXCEPT ![i] = "record"]
    /\ UNCHANGED <<xClients, xMutex, xMade, bPc, bCount, bServers, brClient,
                   bE, bReplyNil, bReplyDone, bReply, bReplyWrites,
                   bCancelled, bWg, bOrder, bRet>>

\* The branch under Broadcast's mutex: record the first error and cancel,
\* copy the clone to reply; then Unlock and the deferred wg.Done.
record(i) ==
    /\ XClientFrame
    /\ brPc[i] = "record"
    /\ bE' = recordError(bE, brErr[i])
    /\ bCancelled' = (bCancelled \/ (brErr[i] # Nil /\ bE = Nil))
    /\ IF copiesReply(brErr[i], bReplyDone)
       THEN /\ bReply' = CloneOf(i)
            /\ bReplyWrites' = bReplyWrites + 1
            /\ bReplyDone' = TRUE
       ELSE UNCHANGED <<bReply, bReplyWrites, bReplyDone>>
    /\ bOrder' = Append(bOrder, i)
    /\ bWg' = bWg - 1
    /\ brPc' = [brPc EXCEPT ![i] = "done"]
    /\ UNCHANGED <<xClients, xMutex, xMade, bPc, bCount, bServers, brClient,
                   brErr, bReplyNil, bRet>>

\* Broadcast: wg.Wait() returns; return e.
BroadcastReturn ==
    /\ XClientFrame
    /\ bPc = "wait"
    /\ bWg = 0
    /\ bRet' = bE
    /\ bPc' = "idle"
    /\ UNCHANGED <<xClients, xMutex, xMade, bCount, bServers, brPc, brClient,
                   brErr, bE, bReplyNil, bReplyDone, bReply, bReplyWrites,
                   bCancelled, bWg, bOrder>>

\* The context passed to Broadcast is cancelled by its owner; the derived
\* context is cancelled with it.
ParentCancel ==
    /\ XClientFrame
    /\ bPc = "wait"
    /\ ~bCancelled
    /\ bCancelled' = TRUE
    /\ UNCHANGED <<xClients, xMutex, xMade, bPc, bCount, bServers, brPc,
                   brClient, brErr, bE, bReplyNil, bReplyDone, bReply,
                   bReplyWrites, bWg, bOrder, bRet>>

\* A Client's receiver ends (the peer closed the connection):
\* terminateCalls sets shutdown.
ClientShutdown ==
    /\ XClientFrame
    /\ \E id \in DOMAIN xMade :
         /\ ~xMade[id].shutdown
         /\ xMade' = [xMade EXCEPT ![id].shutdown = TRUE]
    /\ UNCHANGED <<xClients, xMutex, bPc, bCount, bServers, brPc, brClient,
                   brErr, bE, bReplyNil, bReplyDone, bReply, bReplyWrites,
                   bCancelled, bWg, bOrder, bRet>>

\* XClient.Close: under xc.mutex, close every cached Client and delete it.
XClientClose ==
    /\ XClientFrame
    /\ xMutex = Unlocked
    /\ DOMAIN xClients # {}
    /\ xMade' = [id \in DOMAIN xMade |->
                    IF \E a \in DOMAIN xClients : xClients[a] = id
                    THEN [xMade[id] EXCEPT !.closing = TRUE] ELSE xMade[id]]
    /\ xClients' = <<>>
    /\ UNCHANGED <<xMutex, bPc, bCount, bServers, brPc, brClient,
                   brErr, bE, bReplyNil, bReplyDone, bReply, bReplyWrites,
                   bCancelled, bWg, bOrder, bRet>>

NextXClient ==
    \/ Broadcast
    \/ \E i \in Branches : dial(i)
    \/ \E i \in Branches : dialXDial(i)
    \/ \E i \in Branches : call(i)
    \/ \E i \in Branches : record(i)
    \/ BroadcastReturn
    \/ ParentCancel
    \/ ClientShutdown
    \/ XClientClose

\* ============================================================== service
\* service.call on one method descriptor, called by the handler goroutines
\* of handleRequest, several at a time.  call(descriptor, argv, replyv)
\* invokes the handler and atomically increments the descriptor's call
\* counter; which of the two comes first is left open.

MaxInvocations == 4
MaxHandlers == 2
Handlers == 1..MaxHandlers

\* A call that does not count itself.
numCallsAfterCallSame(n) == n

\* The atomic increment of the call counter: one indivisible step.
numCallsAfterCall(n) == n + 1

\* Where an invocation starts: nothing counted, handler not run.
CallEntered == [counted |-> FALSE, ran |-> FALSE]

InitService ==
    /\ numCalls = 0
    /\ svcPc = [k \in Handlers |-> "idle"]
    /\ svcIn = [k \in Handlers |-> CallEntered]
    /\ svcStarted = 0
    /\ svcReturned = 0
    /\ handlerRuns = 0
    /\ svcErr = [k \in Handlers |-> "none"]

\* The goroutine of handleRequest enters req.svc.call(req.mtype, ...).
serviceCall(k) ==
    /\ ServiceFrame
    /\ svcPc[k] = "idle"
    /\ svcStarted < MaxInvocations
    /\ svcStarted' = svcStarted + 1
    /\ svcPc' = [svcPc EXCEPT ![k] = "call"]
    /\ svcIn' = [svcIn EXCEPT ![k] = CallEntered]
    /\ UNCHANGED <<numCalls, svcReturned, handlerRuns, svcErr>>

\* call: the atomic increment of the method's counter.
serviceCallCount(k) ==
    /\ ServiceFrame
    /\ svcPc[k] = "call"
    /\ ~svcIn[k].counted
    /\ numCalls' = numCallsAfterCall(numCalls)
    /\ svcIn' = [svcIn EXCEPT ![k].counted = TRUE]
    /\ UNCHANGED <<svcPc, svcStarted, svcReturned, handlerRuns, svcErr>>

\* call: the handler is invoked and returns nil or an error.
serviceCallInvoke(k) ==
    /\ ServiceFrame
    /\ svcPc[k] = "call"
    /\ ~svcIn[k].ran
    /\ handlerRuns' = handlerRuns + 1
    /\ svcIn' = [svcIn EXCEPT ![k].ran = TRUE]
    /\ \E e \in {"nil", "error"} : svcErr' = [svcErr EXCEPT ![k] = e]
    /\ UNCHANGED <<numCalls, svcPc, svcStarted, svcReturned>>

\* call returns the handler's error.
serviceCallReturn(k) ==
    /\ ServiceFrame
    /\ svcPc[k] = "call"
    /\ svcIn[k].counted /\ svcIn[k].ran
    /\ svcPc' = [svcPc EXCEPT ![k] = "idle"]
    /\ svcReturned' = svcReturned + 1
    /\ UNCHANGED <<numCalls, svcIn, svcStarted, handlerRuns, svcErr>>

NextService ==
    \/ \E k \in Handlers : serviceCall(k)
    \/ \E k \in Handlers : serviceCallCount(k)
    \/ \E k \in Handlers : serviceCallInvoke(k)
    \/ \E k \in Handlers : serviceCallReturn(k)

\* ====================================================== specifications

NextClient ==
    \/ \E c \in Calls : send(c)
    \/ \E c \in Calls : sendWrite(c)
    \/ \E c \in Calls : CallDone(c)
    \/ \E c \in Calls : CallCtxDone(c)
    \/ Close
    \/ receiveHeader
    \/ receiveHeaderErr
    \/ receiveBody
    \/ terminateCalls
    \/ PeerRespond
    \/ PeerClose

\* Every machine starts freshly constructed.
Init == InitClient /\ InitServer /\ InitDiscovery /\ InitRegistry /\ InitLocks
        /\ InitRefreshers /\ InitXClient /\ InitService

SpecClient == Init /\ [][NextClient]_vars

SpecServer == Init /\ [][NextServer]_vars

SpecDiscovery == Init /\ [][NextDiscovery]_vars

SpecRegistry == Init /\ [][NextRegistry]_vars

SpecClientLocks == Init /\ [][NextClientLocks]_vars

SpecRefreshers == Init /\ [][NextRefreshers]_vars

SpecXClient == Init /\ [][NextXClient]_vars

SpecService == Init /\ [][NextService]_vars

\* The Go scheduler eventually runs a goroutine that can take a step: the
\* receiver goroutine (started by newClientCodec) takes its next step, and
\* a sender that holds the sending lock finishes its Write (weak fairness).
\* Callers, Close and the peer are under no obligation to act.
FairSpecClient ==
    /\ SpecClient
    /\ WF_vars(receiveHeader \/ receiveHeaderErr \/ receiveBody)
    /\ WF_vars(terminateCalls)
    /\ \A c \in Calls : WF_vars(sendWrite(c))


\* The server with a fair scheduler: the serve loop, every handleRequest
\* and every goroutine it spawned takes a step it can take, a mutex that
\* is free is handed to a writer waiting for it, and a timer that is armed
\* fires while handleRequest waits in select.  A handler is under no
\* obligation to return.
FairSpecServer ==
    /\ SpecServer
    /\ WF_vars(serveCodecSend \/ serveCodecSendBody \/ serveCodecClose)
    /\ \A r \in Reqs :
         /\ WF_vars(handlerCalled(r))
         /\ SF_vars(handlerSend(r))
         /\ WF_vars(handlerSendBody(r))
         /\ WF_vars(handlerSent(r))
         /\ WF_vars(handleRequestTimeout(r))
         /\ SF_vars(handleRequestSend(r))
         /\ WF_vars(handleRequestSendBody(r))

\* ============================================================== claims

\* Header parts written for request r, and body parts.
ResponseHeaders(r) == {i \in 1..Len(out) : out[i].part = "H" /\ out[i].req = r}
ResponseBodies(r) == {i \in 1..Len(out) : out[i].part = "B" /\ out[i].req = r}

\* C1: a request handed to handleRequest gets exactly one response frame
\* carrying its seq, with and without a HandleTimeout, however the handler's
\* return and the timeout interleave: never two sendResponse calls, and
\* exactly one frame once handleRequest has returned.
C1_ExactlyOneResponse ==
    \A r \in Reqs :
        /\ sendCalls[r] <= 1
        /\ Cardinality(ResponseHeaders(r)) <= 1
        /\ \A i \in ResponseHeaders(r) : out[i].Seq = reqSeq[r]
        /\ hPc[r] = "returned" =>
              /\ sendCalls[r] = 1
              /\ Cardinality(ResponseHeaders(r)) = 1
              /\ Cardinality(ResponseBodies(r)) = 1

\* The timeout fired, the timeout response was written, and the handler
\* returned afterwards: its goroutine is at `called <-`.
C1_Witness ==
    \E r \in Reqs :
        /\ opt.HandleTimeout > 0
        /\ hPc[r] = "returned"
        /\ gPc[r] \in {"called_ok", "called_err"}
        /\ sendCalls[r] = 1
        /\ \E q \in Reqs : q # r /\ hPc[q] = "returned" /\ gPc[q] = "exit"

\* C2: with several calls in flight and responses arriving in any order, a
\* call's reply and error are filled only from the response frame whose seq
\* is the call's own seq.
C2_ResponseMatchesCall ==
    /\ \A c \in Calls :
          /\ filledBy[c] \in {0, callSeq[c]}
          /\ callReply[c] \in {0, Result(callSeq[c])}
    /\ recvCall # NoCall => callSeq[recvCall] = recvH.Seq

\* The second call was answered first, while the first is still pending.
C2_Witness ==
    \E c, d \in Calls :
        /\ callSeq[c] = 1 /\ callSeq[d] = 2
        /\ filledBy[d] = 2 /\ callReply[d] = Result(2)
        /\ removeCall(pending, 1) = c
        /\ Len(wire) = 2

\* The receiver is not between removeCall and done() for call c.
ReceiverDoneWith(c) == recvCall # c

C4_DoneAtMostOnce == \A c \in Calls : doneCount[c] <= 1

\* Close, a response and terminateCalls all happened: one call was completed
\* by its response, another by terminateCalls.
C4_Witness ==
    \E c, d \in Calls :
        /\ closing /\ shutdown
        /\ endedBy[c] = "response" /\ doneCount[c] = 1
        /\ endedBy[d] = "terminate" /\ doneCount[d] = 1

\* C5: the seqs of the request frames on the wire are strictly increasing,
\* start at 1, are never reused and are never 0.
C5_WireSeqIncreasing ==
    /\ \A i \in 1..Len(wire) : wire[i].Seq # 0
    /\ \A i, j \in 1..Len(wire) : i < j => wire[i].Seq < wire[j].Seq
    /\ Len(wire) > 0 => wire[1].Seq = 1

\* Every caller's request is on the wire.
C5_Witness == Len(wire) = MaxCalls /\ \A i \in 1..Len(wire) : wire[i].full

\* C6: after Call returned on ctx cancellation its seq is not in the pending
\* table and an error was returned; a response the receiver then reads for a
\* seq that is not pending has its header and body consumed and dropped on
\* a live stream, the receiver goes on to the next header, and the client's
\* availability and every call are left as they were.
C6_CancelledCallDiscarded ==
    /\ [](\A c \in Calls : callPc[c] = "ret_cancel" =>
              /\ callSeq[c] \notin DOMAIN pending
              /\ callRet[c] \notin {"none", "nil"})
    /\ [][(recvPc = "body" /\ recvCall = NoCall /\ connUp /\ recvPc' # "body") =>
              /\ recvPc' = "header"
              /\ inbox' = Tail(inbox)
              /\ recvH.Seq \in discarded'
              /\ closing' = closing /\ shutdown' = shutdown
              /\ callReply' = callReply /\ callError' = callError
              /\ doneCount' = doneCount]_vars

\* A cancelled call's late response was dropped and the client is available.
C6_Witness ==
    \E c \in Calls :
        /\ callPc[c] = "ret_cancel"
        /\ callSeq[c] \in discarded
        /\ callReply[c] = 0
        /\ recvPc = "header"
        /\ IsAvailable

\* C7: the first Close sets closing and closes the codec; every later Close
\* returns ErrShutdown and does not close the codec again.
C7_CloseOnce ==
    /\ Len(closeLog) > 0 => closing
    /\ \A i \in 1..Len(closeLog) :
          IF i = 1
          THEN closeLog[i].ccClose /\ closeLog[i].ret # "ErrShutdown"
          ELSE ~closeLog[i].ccClose /\ closeLog[i].ret = "ErrShutdown"

\* Close was called twice.
C7_Witness == Len(closeLog) = 2 /\ closeLog[2].ret = "ErrShutdown"

\* C8 as claimed, its safety half: a call that was pending when Close took
\* effect completes with a non-nil error.
C8_PendingAtCloseFail ==
    \A c \in pendingAtClose : doneCount[c] > 0 => callError[c] # "nil"

\* A call that was pending when Close took effect is settled: done was
\* signalled, or its caller's cancellation took it out of the table.
SettledAfterClose(c) == doneCount[c] > 0 \/ endedBy[c] = "cancel"

\* C8 as it holds: after Close the receiver eventually runs terminateCalls
\* and every call that was pending is eventually settled; the calls that
\* terminateCalls completes carry a non-nil error, while a call whose
\* response the decoder had already buffered completes with that response.
C8_PendingEventuallySettled ==
    /\ closing ~> (recvPc = "exited" /\ \A c \in pendingAtClose : SettledAfterClose(c))
    /\ [](\A c \in Calls : endedBy[c] = "terminate" => callError[c] # "nil")

\* Close found a pending call, and terminateCalls completed it.
C8_Witness ==
    \E c \in pendingAtClose :
        /\ recvPc = "exited"
        /\ endedBy[c] = "terminate"
        /\ callError[c] = "terminated"
        /\ doneCount[c] = 1

\* C9: a call sent on a client that is closing or shut down completes at
\* once with ErrShutdown: nothing is written, nothing is added to the
\* pending table and the seq counter stays.
C9_RefusedCallChangesNothing ==
    /\ [][\A c \in Calls :
            (callPc[c] = "idle" /\ callPc'[c] # "idle" /\ (closing \/ shutdown)) =>
                /\ callError'[c] = "ErrShutdown"
                /\ doneCount'[c] = 1
                /\ callPc'[c] = "wait"
                /\ wire' = wire /\ pending' = pending /\ seq' = seq
                /\ sendingMutex' = sendingMutex]_vars
    /\ [](\A c \in Calls : callError[c] = "ErrShutdown" =>
              /\ callSeq[c] = 0
              /\ c \notin PendingCalls(pending)
              /\ callRet[c] \in {"none", "ErrShutdown", "rpc client - call failed: ctx"})

\* A call on a client shut down by the peer (not closing) returned
\* ErrShutdown, and nothing was ever written.
C9_Witness ==
    \E c \in Calls :
        /\ shutdown /\ ~closing
        /\ callRet[c] = "ErrShutdown"
        /\ wire = <<>> /\ seq = InitSeq

\* The Option is one the handshake must refuse: it did not decode, its
\* magic number is not 0x7a736b, or its codec tag is not one of the two
\* defined tags.
BadOption(o) ==
    \/ ~o.decodes
    \/ o.MagicNumber # 8024939
    \/ o.CodecType \notin {"application/gob", "application/json"}

\* C10: after a bad Option the server reads no request header, writes no
\* response and closes the stream; the dispatch loop runs only after an
\* Option that is not bad.
C10_BadHandshakeAborts ==
    /\ (srvPc # "option" /\ BadOption(opt)) =>
          /\ srvPc = "closed"
          /\ headerReads = 0
          /\ nread = 0
          /\ out = <<>>
    /\ (srvPc \notin {"option", "closed"} \/ headerReads > 0) => ~BadOption(opt)

\* An Option that decodes, with a wrong magic number, closed the stream.
C10_Witness ==
    /\ srvPc = "closed"
    /\ opt.decodes
    /\ opt.MagicNumber # MagicNumber
    /\ opt.CodecType = "application/gob"
    /\ headerReads = 0

\* The Option decodes and carries the magic number and one of the two
\* defined codec tags.
GoodOption(o) ==
    /\ o.decodes
    /\ o.MagicNumber = 8024939
    /\ o.CodecType \in {"application/gob", "application/json"}

\* C11: a handshake with the magic number and either defined codec tag,
\* "application/json" as well as "application/gob", is accepted: the server
\* enters the dispatch loop instead of closing the stream unread, and
\* NewClient returns a Client for that tag.
C11_BothCodecTagsUsable ==
    (srvPc # "option" /\ GoodOption(opt)) =>
        /\ ~(srvPc = "closed" /\ headerReads = 0)
        /\ NewClient(opt.CodecType) = "client"

\* readRequest's error is one findService returned for a name it could
\* look up no method for: no dot in it, or a method its service lacks.
DispatchError(e) ==
    e \in {"rpc server - service/method request ill-formed",
           "rpc server - can't find method"}

\* The read loop has finished answering request r.
LoopAnswered(r) == r < nread \/ (r = nread /\ srvPc \notin {"send", "sendbody"})

\* C12: a request with an ill-formed service_method or an unknown method
\* gets one response with its seq and a non-empty error, and the
\* connection stays usable: back at the top of the loop the stream stands
\* at the next request's header, so the next request frame can be read
\* and dispatched.
C12_DispatchErrorKeepsConnection ==
    \A r \in Reqs :
        DispatchError(reqErr[r]) =>
            /\ sendCalls[r] <= 1
            /\ \A i \in ResponseHeaders(r) :
                  out[i].Seq = reqSeq[r] /\ out[i].Error # ""
            /\ LoopAnswered(r) => Cardinality(ResponseHeaders(r)) = 1
            /\ (r = nread /\ r < MaxReq /\ srvPc = "loop") =>
                  /\ ~unreadBody
                  /\ ENABLED serveCodecRead

\* C13: a request naming a service that is not registered makes
\* findService return the not-found error without touching the missing
\* entry, so it is answered like any other dispatch error: the serving
\* goroutine never fails while resolving a request.
C13_UnknownServiceAnswered ==
    /\ srvPc # "panic"
    /\ \A r \in Reqs : reqErr[r] # "panic"

\* C14: a request whose header was read and resolved but whose body does
\* not decode gets no handler and exactly one response, written by the read
\* loop, with the header's seq and the decode error; when no header could
\* be read the loop ends without writing anything, and no response is ever
\* written for a request whose header was not read.
C14_BodyDecodeErrorAnswered ==
    /\ [](\A r \in Reqs : reqKind[r] = "badbody" =>
              /\ hPc[r] = "none" /\ gPc[r] = "none"
              /\ sendCalls[r] <= 1
              /\ \A i \in ResponseHeaders(r) \cup ResponseBodies(r) :
                    /\ out[i].Seq = reqSeq[r]
                    /\ out[i].Error = "read body error"
                    /\ out[i].by = "loop"
              /\ LoopAnswered(r) =>
                    /\ Cardinality(ResponseHeaders(r)) = 1
                    /\ Cardinality(ResponseBodies(r)) = 1)
    /\ [](\A i \in 1..Len(out) : out[i].req <= nread)
    /\ [][(srvPc = "loop" /\ srvPc' = "wait") =>
              /\ out' = out /\ sendCalls' = sendCalls
              /\ nread' = nread /\ wg' = wg]_vars

\* A request with a body that does not decode was answered, and then a
\* header could not be read: the loop ended with that one response written.
C14_Witness ==
    /\ nread = 1
    /\ reqKind[1] = "badbody"
    /\ srvPc = "wait"
    /\ headerReads = 2
    /\ Len(out) = 2
    /\ out[1].Seq = reqSeq[1] /\ out[1].Error = "read body error"

\* handleRequest(r) took the timer case of its select.
TimeoutTaken(r) ==
    \/ hPc[r] \in {"send", "sendbody"}
    \/ hPc[r] = "returned" /\ gPc[r] # "exit"

\* handleRequest(r) received from called: the goroutine is past `called <-`.
CalledReceived(r) == gPc[r] \in {"send", "sendbody", "sent", "exit"}

\* Every part written for request r was written by writer w with error e.
ResponseIs(r, w, e) ==
    \A i \in ResponseHeaders(r) \cup ResponseBodies(r) :
        out[i].by = w /\ out[i].Error = e

\* C15 as claimed: with a HandleTimeout, a timeout that fires before the
\* handler returned gives the timeout error as the one response and the
\* handler's result is never written; and once the handler has returned
\* while handleRequest still waits, the timeout branch is not taken.
C15_HandlerReturnedFirstWins ==
    /\ [](\A r \in Reqs : TimeoutTaken(r) =>
              /\ ~CalledReceived(r)
              /\ ResponseIs(r, "handleRequest", "rpc server - request handle timeout"))
    /\ [][\A r \in Reqs :
             (hPc[r] = "select" /\ gPc[r] \in {"called_ok", "called_err"})
                 => hPc'[r] # "send"]_vars

\* C15 as it holds: the race is decided by which of the timer and the
\* handler's called signal handleRequest receives first.  If it is the
\* timer, the one response is the timeout error and the goroutine never
\* gets past `called <-`, so the handler's result is never written; if it is
\* called, the one response is written by the goroutine and carries the
\* handler's reply or error.
C15_TimeoutOrCalledFirst ==
    \A r \in Reqs :
        /\ Cardinality(ResponseHeaders(r)) <= 1
        /\ ~(TimeoutTaken(r) /\ CalledReceived(r))
        /\ TimeoutTaken(r) =>
              /\ timeoutArmed
              /\ ResponseIs(r, "handleRequest", "rpc server - request handle timeout")
              /\ hPc[r] = "returned" => Cardinality(ResponseHeaders(r)) = 1
        /\ CalledReceived(r) =>
              /\ reqErr[r] \in {"", "handler error"}
              /\ ResponseIs(r, "goroutine", reqErr[r])
              /\ hPc[r] = "returned" => Cardinality(ResponseHeaders(r)) = 1

\* With a HandleTimeout set, one request was answered by its handler with
\* the handler's error, and another got the timeout response although its
\* handler has returned since: that goroutine stands at `called <-`.
C15_Witness ==
    \E r, q \in Reqs :
        /\ opt.HandleTimeout > 0
        /\ hPc[r] = "returned" /\ TimeoutTaken(r)
        /\ gPc[r] = "called_ok"
        /\ \E i \in ResponseHeaders(r) :
              out[i].Error = "rpc server - request handle timeout"
        /\ hPc[q] = "returned" /\ gPc[q] = "exit"
        /\ \E i \in ResponseHeaders(q) : out[i].Error = "handler error"

\* C16: with the list fixed at n >= 1 endpoints, each Get(RoundRobinSelect)
\* returns list[index mod n] and advances the cursor, so the i-th of
\* successive calls returns list[(index + i - 1) mod n], where index is the
\* cursor before the first of them: n consecutive calls go once through
\* the list, in list order.
C16_RoundRobinCycles ==
    LET n == Len(dServers)
    IN  \A i \in 1..Len(rrLog) :
            rrLog[i] = dServers[((rrStart + i - 1) % n) + 1]

\* A step that is a call of Refresh, Get or GetAll on the registry-backed
\* discovery.
RefreshingCall ==
    /\ dOps' # dOps
    /\ dKind = "registry"
    /\ dOp'.op \in {"Refresh", "Get", "GetAll"}

\* C17: a registry-backed Refresh, alone or inside Get and GetAll, calls
\* the registry exactly when at least d.timeout has passed since
\* lastUpdate, which is the time of the last Update or successful fetch;
\* inside that window it returns nil and leaves the list and lastUpdate
\* as they are.
C17_RefreshOnlyWhenStale ==
    /\ [][RefreshingCall =>
              /\ dOp'.fetched <=> (dNow - lastUpdate >= dTimeout)
              /\ (dNow - lastUpdate < dTimeout) =>
                    /\ dOp'.err # "fetch error"
                    /\ dOp'.op = "Refresh" => dOp'.err = ""
                    /\ dServers' = dServers
                    /\ lastUpdate' = lastUpdate]_vars
    /\ [][(dOps' # dOps /\ dKind = "registry") =>
              lastUpdate' = IF dOp'.op = "Update" \/ (dOp'.fetched /\ ~dOp'.failed)
                            THEN dNow ELSE lastUpdate]_vars

\* One second after the list was set, with a timeout of two, GetAll
\* returned the list it held without calling the registry.
C17_Witness ==
    /\ dKind = "registry" /\ dTimeout = 2
    /\ dNow = lastUpdate + 1
    /\ dOp.op = "GetAll" /\ ~dOp.fetched /\ dOp.err = ""
    /\ dOp.val = dServers /\ dServers # <<>>

\* C18: when the fetch of a registry-backed Refresh fails, the call returns
\* the error and no endpoint, the list and lastUpdate stay as they were, and
\* the list is still stale, so the next call fetches again.
C18_FailedRefreshKeepsList ==
    [][(dOps' # dOps /\ dOp'.failed) =>
          /\ dOp'.err = "fetch error"
          /\ dOp'.val = <<>>
          /\ dServers' = dServers
          /\ lastUpdate' = lastUpdate
          /\ dIndex' = dIndex
          /\ ~Fresh(lastUpdate', dTimeout, dNow')]_vars

\* A Get on a stale, non-empty list met a failing registry: it returned the
\* error, and the list fetched earlier is still held.
C18_Witness ==
    /\ dKind = "registry"
    /\ dOp.op = "Get" /\ dOp.failed /\ dOp.err = "fetch error" /\ dOp.val = <<>>
    /\ dServers = <<"tcp@a", "tcp@b">>
    /\ lastUpdate > ZeroTime
    /\ dNow >= lastUpdate + dTimeout

\* The endpoints in a list.
Listed(list) == {list[i] : i \in DOMAIN list}

\* C19 as claimed: for a registry with timeout > 0 an entry is dead exactly
\* when now - start > timeout; a GET returns, sorted, exactly the entries
\* that are not dead, and leaves no dead entry in the map.
C19_DeadBeyondTimeout ==
    [][(rGets' # rGets /\ rTimeout > 0) =>
          /\ Listed(lastGet'.alive) =
                {a \in DOMAIN rServers : ~(rNow - rServers[a] > rTimeout)}
          /\ \A i, j \in DOMAIN lastGet'.alive :
                i < j => StringLess(lastGet'.alive[i], lastGet'.alive[j])
          /\ \A a \in DOMAIN rServers' : ~(rNow - rServers'[a] > rTimeout)]_vars

\* The Heartbeat sender has not failed and its period is the registry's
\* timeout less one minute.
HeartbeatInTime ==
    /\ hb.state = "running"
    /\ rTimeout > 0
    /\ hb.period = rTimeout - 1

\* C20: while an endpoint's heartbeats, one every timeout - 1 minutes, have
\* not failed, its entry is in the map and younger than the timeout at
\* every moment, and every GET lists it, whatever GETs and POSTs of
\* others come in between.
C20_HeartbeatKeepsListed ==
    /\ [](HeartbeatInTime =>
              /\ hb.addr \in DOMAIN rServers
              /\ rNow - rServers[hb.addr] < rTimeout)
    /\ [][(rGets' # rGets /\ HeartbeatInTime) =>
              /\ hb.addr \in Listed(lastGet'.alive)
              /\ hb.addr \in DOMAIN rServers']_vars

\* With the default timeout of five minutes and heartbeats at minutes 0 and
\* 4, a GET at minute 6 listed the endpoint.
C20_Witness ==
    /\ HeartbeatInTime
    /\ rTimeout = defaultTimeout
    /\ hb.next = 8
    /\ lastGet.at = 6
    /\ hb.addr \in Listed(lastGet.alive)
    /\ rServers[hb.addr] = 4


\* ---------------------------------------------------- registry: Heartbeat

\* C31: Heartbeat sends one POST at once and then one per period for as
\* long as every send succeeded, and none after the first send that
\* failed, the very first included: the first send is made in the step of
\* the call, every later one exactly one period after the one before it,
\* only the last send of the history can have failed, no period passes
\* without its send while none has failed, and a sender that has failed
\* never sends again.
C31_HeartbeatUntilFirstFailure ==
    /\ [](hb.state # "off" =>
            /\ Len(hb.sent) >= 1
            /\ \A i \in 1..(Len(hb.sent) - 1) :
                  /\ hb.sent[i].ok
                  /\ hb.sent[i + 1].at = hb.sent[i].at + hb.period
            /\ (hb.state = "stopped") = ~hb.sent[Len(hb.sent)].ok
            /\ hb.state = "running" => rNow <= hb.sent[Len(hb.sent)].at + hb.period)
    /\ [][(hb.state = "off" /\ hb'.state # "off") =>
              hb'.sent = <<[at |-> rNow, ok |-> hb'.state = "running"]>>]_vars
    /\ [][hb.state = "stopped" => hb' = hb]_vars

\* Both ways of stopping happened: a sender whose very first send failed,
\* left alone while the clock went on for more than its period; and one
\* that sent three times, one period apart, failed on the third, and sent
\* nothing when the next tick was due.
C31_FirstSendFailed ==
    /\ hb.state = "stopped"
    /\ Len(hb.sent) = 1
    /\ rNow > hb.sent[1].at + hb.period
C31_Witness ==
    /\ hb.state = "stopped"
    /\ Len(hb.sent) = 3
    /\ hb.sent[2].ok
    /\ hb.sent[3].at = hb.sent[1].at + 2 * hb.period
    /\ rNow >= hb.sent[3].at + hb.period
\* ----------------------------------------------------- server: lifetime

\* C25 as claimed: the stream is closed only after every handler spawned
\* on the connection has returned: in no state is the stream closed while
\* the goroutine of a dispatched request is still inside req.svc.call.
C25_ClosedAfterHandlers ==
    srvPc = "closed" => \A r \in Reqs : gPc[r] # "call"

\* The goroutines that are writing a response: the header is out, the
\* body is not.
MidWrite ==
    {LoopWriter(nread) : x \in {y \in {1} : srvPc = "sendbody"}}
    \cup {TimeoutWriter(r) : r \in {q \in Reqs : hPc[q] = "sendbody"}}
    \cup {HandlerWriter(r) : r \in {q \in Reqs : gPc[q] = "sendbody"}}

\* Those that have called sendResponse and wait for the lock.
WaitingToWrite ==
    {LoopWriter(nread) : x \in {y \in {1} : srvPc = "send"}}
    \cup {TimeoutWriter(r) : r \in {q \in Reqs : hPc[q] = "send"}}
    \cup {HandlerWriter(r) : r \in {q \in Reqs : gPc[q] = "send"}}

\* C26: at most one response write is in progress on the connection, by
\* the holder of the send mutex; on the wire every header is followed at
\* once by the body of the same response, written by the same writer, and
\* every body follows its header.
C26_ResponsesNotInterleaved ==
    /\ Cardinality(MidWrite) <= 1
    /\ MidWrite = {w \in {srvSendingMutex} : w # Free}
    /\ \A i \in DOMAIN out :
          /\ out[i].part = "H" =>
                /\ i = Len(out) => MidWrite # {}
                /\ i < Len(out) =>
                      out[i + 1] = [out[i] EXCEPT !.part = "B"]
          /\ out[i].part = "B" =>
                i > 1 /\ out[i - 1] = [out[i] EXCEPT !.part = "H"]

\* The handler goroutine of one request has written its header and not
\* yet its body, while handleRequest of the other request, timed out, has
\* called sendResponse and waits for the send mutex.
C26_Witness ==
    /\ Len(out) = 1
    /\ \E r \in Reqs : MidWrite = {HandlerWriter(r)}
    /\ \E r \in Reqs : TimeoutWriter(r) \in WaitingToWrite

\* -------------------------------------------------- client: pending table

\* C28 as claimed: once terminateCalls has run (shutdown is set) the
\* pending table is empty, and a call whose done has been signalled is not
\* in the table.
C28_AbortEmptiesPending ==
    /\ shutdown => DOMAIN pending = {}
    /\ \A c \in Calls : doneCount[c] > 0 => c \notin PendingCalls(pending)

\* ------------------------------------------------------------ codec: Write

\* C29 as claimed: a Write of send that fails in one of its three steps
\* (header, body, flush) returns an error and leaves the stream closed, and
\* a Write that returns nil has put the whole frame of that call on the
\* stream.  (send completes the call with the error exactly when Write
\* returned one.)
C29_NilWriteMeansFrameSent ==
    [][\A c \in Calls :
          (callPc[c] = "write" /\ callPc'[c] = "wait") =>
              IF endedBy'[c] = "sendfail"
              THEN ~connUp'
              ELSE wire' = Append(wire, [Seq |-> callSeq[c], full |-> TRUE])]_vars

\* ------------------------------------------------------- client: locks

\* The next step of goroutine t.
GoroutineStep(t) ==
    \/ /\ t \in Calls
       /\ \/ sendLock(t) \/ registerCallLock(t) \/ registerCall(t)
          \/ sendRefused(t) \/ sendCodecWrite(t) \/ sendRemoveCallLock(t)
          \/ sendRemoveCall(t) \/ CallDone(t) \/ CallCtxDoneLock(t)
          \/ CallCtxDoneRemoveCall(t)
    \/ /\ t = Receiver
       /\ \/ receiveReadHeader \/ receiveHeaderErr \/ receiveRemoveCallLock
          \/ receiveRemoveCall \/ receiveBody \/ terminateCallsLock1
          \/ terminateCallsLock2 \/ terminateCallsLocked
    \/ t = Closer /\ (CloseLock \/ CloseLocked)
    \/ t = Prober /\ (IsAvailableLock \/ IsAvailableLocked)

\* The mutexes goroutine t holds.
Held(t) == {lockOrder[t][i] : i \in DOMAIN lockOrder[t]}

\* C27: a goroutine that holds both mutexes took sendingMutex first and
\* mutex second.  No set of goroutines blocks itself: the holder of mutex
\* can always take its next step, and the holder of sendingMutex can take
\* its next step or waits for mutex alone, which another goroutine holds.
\* While terminateCalls runs under its locks no call is between its
\* registration and the end of its write.
\* The done() calls made under the locks cannot block: a call is sent on
\* its Done channel, of capacity one in Call, at most once.
C27_LockOrderNoDeadlock ==
    /\ \A t \in Goroutines :
          /\ "sendingMutex" \in Held(t) <=> sendingMutex = t
          /\ "mutex" \in Held(t) <=> mutex = t
          /\ Held(t) = {"sendingMutex", "mutex"} =>
                lockOrder[t] = <<"sendingMutex", "mutex">>
    /\ mutex # Unlocked => ENABLED GoroutineStep(mutex)
    /\ sendingMutex # Unlocked =>
          \/ ENABLED GoroutineStep(sendingMutex)
          \/ mutex \notin {Unlocked, sendingMutex}
    /\ recvPc = "terminate_locked" => \A c \in Calls : callPc[c] # "write"
    /\ \A c \in Calls : doneCount[c] <= 1

\* A caller is inside registerCall with both mutexes, sendingMutex taken
\* first, after another call was written; the receiver has left its loop
\* and waits in terminateCalls for sendingMutex.
C27_Witness ==
    \E c \in Calls :
       /\ callPc[c] = "registerCall_locked"
       /\ lockOrder[c] = <<"sendingMutex", "mutex">>
       /\ recvPc = "terminate"
       /\ DOMAIN pending # {}

\* -------------------------------------------- discovery: several callers

\* Callers j and k called after the list had gone stale, before any fetch
\* replaced it.
SameStaleness(j, k) ==
    /\ j # k
    /\ rfCall[j].op # "none" /\ rfCall[k].op # "none"
    /\ rfCall[j].stale /\ rfCall[k].stale
    /\ rfCall[j].lu = rfCall[k].lu

\* Caller k is past its Refresh, which did not fail.
Refreshed(k) == rfPc[k] \in {"refreshed", "returned", "blocked"} /\ ~rfCall[k].failed

\* Caller j fetched, and the fetch succeeded.
FetchedOk(j) == rfCall[j].fetched /\ ~rfCall[j].failed

\* Caller k returned a value, and it comes from list l.
ReturnedFrom(k, l) ==
    /\ rfPc[k] = "returned" /\ rfCall[k].err = ""
    /\ IF rfCall[k].op = "GetAll" THEN rfCall[k].val = l
       ELSE rfCall[k].val[1] \in {l[i] : i \in DOMAIN l}

\* At most one fetch is in flight, by the holder of d.mutex.
OneFetchInFlight ==
    /\ Cardinality({k \in Callers : rfPc[k] = "fetching"}) <= 1
    /\ \A k \in Callers : rfPc[k] = "fetching" <=> dMutex = k

\* C30 as claimed: at most one fetch is in flight, and of the callers that
\* came while the list was stale, once one has fetched with success, the
\* others do not fetch and what they return is what it fetched.
C30_OneFetchPerStaleness ==
    /\ OneFetchInFlight
    /\ \A j, k \in Callers :
          (SameStaleness(j, k) /\ FetchedOk(j) /\ Refreshed(k)) =>
              /\ ~rfCall[k].fetched
              /\ (rfPc[k] = "returned" /\ rfCall[k].err = "") =>
                     ReturnedFrom(k, rfCall[j].got)

\* C30 as it holds: at most one fetch is in flight.  Of two callers that
\* came while the list was stale and whose fetches, if any, succeeded, both
\* fetched only when the later one took the mutex a full timeout or more
\* after the earlier fetch was stored; a caller that did not fetch took
\* the mutex less than a timeout after it, and returns from a list that
\* some caller fetched.
C30_OneFetchUnlessStaleAgain ==
    /\ OneFetchInFlight
    /\ \A j, k \in Callers :
          (SameStaleness(j, k) /\ FetchedOk(j) /\ Refreshed(k)) =>
              /\ rfCall[k].fetched =>
                    \/ rfCall[k].checkedAt >= rfCall[j].fetchedAt + dTimeout
                    \/ rfCall[j].checkedAt >= rfCall[k].fetchedAt + dTimeout
              /\ ~rfCall[k].fetched =>
                    /\ rfCall[k].checkedAt < rfCall[j].fetchedAt + dTimeout
                    /\ (rfPc[k] = "returned" /\ rfCall[k].err = "") =>
                          \E i \in Callers :
                             FetchedOk(i) /\ ReturnedFrom(k, rfCall[i].got)

\* Two callers came at the same moment to a stale list; one fetched two
\* endpoints, the other took the mutex a second later, did not fetch, and
\* GetAll returned the fetched list to it.
C30_Witness ==
    \E j, k \in Callers :
       /\ SameStaleness(j, k) /\ FetchedOk(j)
       /\ dTimeout = 2
       /\ rfCall[k].checkedAt = rfCall[j].fetchedAt + 1
       /\ ~rfCall[k].fetched
       /\ rfCall[k].op = "GetAll"
       /\ ReturnedFrom(k, <<"tcp@a", "tcp@b">>)
       /\ rfCall[j].got = <<"tcp@a", "tcp@b">>

\* -------------------------------------------------------------- XClient

\* The branches the current Broadcast started.
Started == 1..Len(bServers)

\* Positions in bOrder of the branches that recorded an error, and of
\* those that succeeded.
Failures == {n \in DOMAIN bOrder : brErr[bOrder[n]] # Nil}
Successes == {n \in DOMAIN bOrder : brErr[bOrder[n]] = Nil}
First(S) == CHOOSE n \in S : \A m \in S : n <= m

\* C21: a Broadcast that got its list from GetAll returns only when every
\* branch it started has finished;
\* it returns nil exactly when every branch succeeded, and otherwise the
\* error of the branch that was first to record one; e, once set, is not
\* replaced while the Broadcast runs.
C21_BroadcastWaitsFirstError ==
    /\ [][(bPc = "wait" /\ bPc' = "idle") =>
             /\ \A i \in Started : brPc[i] = "done"
             /\ Len(bOrder) = Len(bServers)
             /\ bRet' = Nil <=> \A i \in Started : brErr[i] = Nil
             /\ Failures # {} => bRet' = brErr[bOrder[First(Failures)]]]_vars
    /\ [][(bPc = "wait" /\ bE # Nil) => bE' = bE]_vars

\* Broadcast over two endpoints has returned the call error of branch 2,
\* which recorded it first; branch 1 then returned the ctx error of the
\* cancellation and did not replace it.
C21_Witness ==
    /\ bPc = "idle"
    /\ bOrder = <<2, 1>>
    /\ brErr[2] = Err("call", 2)
    /\ brErr[1] = Err("ctx", 1)
    /\ bRet = Err("call", 2)

\* C22 as claimed: during one Broadcast the reply slot is set at most once,
\* to the clone of the first branch that succeeded, and only if no branch
\* had recorded an error before that success.
C22_ReplyOnlyBeforeError ==
    /\ bReplyWrites <= 1
    /\ bReplyWrites = 1 =>
          /\ Successes # {}
          /\ bReply = CloneOf(bOrder[First(Successes)])
          /\ \A m \in Failures : m > First(Successes)

\* Every Client that is not closed is the one cached for its endpoint.
LiveClientsCached ==
    \A id \in DOMAIN xMade :
       ~xMade[id].closing =>
           /\ xMade[id].addr \in DOMAIN xClients
           /\ xClients[xMade[id].addr] = id

\* C23: the cache holds at most one Client per endpoint, made for that
\* endpoint, and no endpoint has two Clients that are not closed.  dial
\* returns the cached Client when it is available and makes none; when it
\* is not, dial has closed it and deleted it before XDial runs; the Client
\* XDial makes is cached and returned.
C23_OneClientPerEndpoint ==
    /\ [](/\ \A a \in DOMAIN xClients :
                xClients[a] \in DOMAIN xMade /\ xMade[xClients[a]].addr = a
          /\ LiveClientsCached
          /\ \A a \in Endpoints : Cardinality(LiveClients(a)) <= 1)
    /\ [][\A i \in Branches :
             LET a == bServers[i] IN
             /\ (brPc[i] = "dial" /\ brPc'[i] = "call") =>
                   /\ a \in DOMAIN xClients
                   /\ ClientIsAvailable(xClients[a])
                   /\ brClient'[i] = xClients[a]
                   /\ xMade' = xMade /\ xClients' = xClients
             /\ (brPc[i] = "dial" /\ brPc'[i] = "XDial") =>
                   /\ a \in DOMAIN xClients =>
                         /\ ~ClientIsAvailable(xClients[a])
                         /\ xMade'[xClients[a]].closing
                   /\ a \notin DOMAIN xClients'
                   /\ LiveClients(a)' = {}
             /\ (brPc[i] = "XDial" /\ brPc'[i] = "call") =>
                   /\ Len(xMade') = Len(xMade) + 1
                   /\ xClients'[a] = Len(xMade')
                   /\ brClient'[i] = Len(xMade')]_vars

\* A Broadcast over the same endpoint twice: the Client cached for it had
\* lost its connection, the first branch to dial closed it and made the
\* second, and the other branch got that one from the cache.
C23_Witness ==
    /\ bServers = <<"tcp@a", "tcp@a">>
    /\ Len(xMade) = 2
    /\ xMade[1] = [addr |-> "tcp@a", closing |-> TRUE, shutdown |-> TRUE]
    /\ LiveClients("tcp@a") = {2}
    /\ brClient[1] = 2 /\ brClient[2] = 2

\* -------------------------------------------------------------- service

\* Invocations of call that are running and have counted themselves, and
\* those that have run the handler.
CountedInside == {k \in Handlers : svcPc[k] = "call" /\ svcIn[k].counted}
RanInside == {k \in Handlers : svcPc[k] = "call" /\ svcIn[k].ran}

\* C24: every invocation of call counts itself once and runs the handler
\* once before it returns, however the invocations interleave: the counter
\* is the number of invocations returned plus those that have counted
\* themselves and not yet returned, likewise the handler runs, and with no
\* invocation running the counter is the number of calls made.
C24_NumCallsCountsCalls ==
    /\ numCalls = svcReturned + Cardinality(CountedInside)
    /\ handlerRuns = svcReturned + Cardinality(RanInside)
    /\ svcReturned <= numCalls /\ numCalls <= svcStarted
    /\ (\A k \in Handlers : svcPc[k] = "idle") =>
           numCalls = svcStarted /\ handlerRuns = svcStarted

\* After two calls made at the same time and a third after them, no call
\* is running and the counter is three.
C24_Witness ==
    /\ \A k \in Handlers : svcPc[k] = "idle"
    /\ svcStarted = 3
    /\ numCalls = 3
    /\ handlerRuns = 3


\* ------------------------------------------- client: cancellation race

\* Client.Call has returned the ctx error to caller c.
ReturnedCancelled(c) == callPc[c] = "ret_cancel"

\* C32 as claimed: once Client.Call has returned a ctx-cancellation error
\* to its caller, no step of the receiver writes into that call's reply
\* slot, however the cancellation interleaves with the receiver's
\* removeCall and ReadBody for the same seq.
C32_NoReplyWriteAfterCancel ==
    [][\A c \in Calls : ReturnedCancelled(c) => callReply'[c] = callReply[c]]_vars

\* ------------------------------------------- server: handler goroutines

\* The handler function of request r has returned and its goroutine has
\* not got past `called <- struct{}{}`.
HandlerReturned(r) == gPc[r] \in {"called_ok", "called_err"}

\* The goroutine of request r has run to its end, or the process has died
\* of a panic and taken it along.
GoroutineTerminated(r) == gPc[r] = "exit" \/ srvPc = "panic"

\* C33 as claimed: every goroutine handleRequest spawned terminates once
\* its handler function has returned, also when the timeout branch was
\* taken first: none stays blocked on called or sent for good.
C33_HandlerGoroutineTerminates ==
    \A r \in Reqs : HandlerReturned(r) ~> GoroutineTerminated(r)

\* ------------------------------------------- client: unavailability

\* IsAvailable has returned false at least once.
ReturnedUnavailable == unavailableSeen \/ availPc = "false"

\* C34: client unavailability is permanent.  closing and shutdown are never
\* reset; once IsAvailable has returned false no later call of it returns
\* true; and from then on registerCall refuses every call, so that no seq
\* is assigned, nothing enters the pending table, no caller gets as far as
\* cc.Write, and every frame on the wire carries the seq of a call that
\* was registered before.
C34_UnavailableForGood ==
    /\ [][(closing => closing') /\ (shutdown => shutdown')]_vars
    /\ [](unavailableSeen => availPc \in {"locked", "false"})
    /\ [](ReturnedUnavailable => closing \/ shutdown)
    /\ [][ReturnedUnavailable =>
            /\ seq' = seq
            /\ callSeq' = callSeq
            /\ DOMAIN pending' \subseteq DOMAIN pending
            /\ \A c \in Calls :
                  /\ (callPc[c] = "registerCall_locked" /\ callPc'[c] # callPc[c])
                        => callPc'[c] = "refused"
                  /\ callPc'[c] = "write" => callPc[c] = "write"
            /\ \A i \in 1..Len(wire') :
                  \E c \in Calls : callSeq[c] # 0 /\ callSeq[c] = wire'[i].Seq]_vars

\* IsAvailable returned false, was called again and returned false again;
\* a call that came to registerCall was refused and completed with
\* ErrShutdown without a seq, and nothing is on the wire.
C34_Witness ==
    /\ unavailableSeen
    /\ availPc = "false"
    /\ \E c \in Calls :
         /\ callPc[c] = "ret_done"
         /\ callRet[c] = "ErrShutdown"
         /\ callSeq[c] = 0
    /\ wire = <<>>
====
